---------------------------- MODULE Spec2Model ----------------------------
(***************************************************************************)
(* A model of the syntax highlighting editor: the four line tokenizers of  *)
(* tokenizer.py (Python, JavaScript, HTML, CSS), the SyntaxHighlighter of  *)
(* highlighter.py that turns tokens into text-widget tags, and the parts   *)
(* of SyntaxEditor (editor.py) that drive it.                              *)
(*                                                                         *)
(* A text is a sequence of one-character strings.  Columns are 0-based and *)
(* line numbers 1-based, as in the source; the character of a line at      *)
(* column i is line[i + 1].  Every regular expression of the rule tables   *)
(* is an operator that returns the end column of its match starting at a   *)
(* given column, or NoMatch.                                               *)
(***************************************************************************)
EXTENDS Integers, Sequences, FiniteSets, TLC

\* ------------------------------------------------------------------------
\* Characters and character classes of Python's re module (ASCII part)
\* ------------------------------------------------------------------------

NL == "\n"

\* The grave accent that delimits a JavaScript template string (a TLA+ string
\* cannot hold the character itself)
Backtick == "BACKTICK"

Lower ==
    { "a","b","c","d","e","f","g","h","i","j","k","l","m",
      "n","o","p","q","r","s","t","u","v","w","x","y","z" }

Upper ==
    { "A","B","C","D","E","F","G","H","I","J","K","L","M",
      "N","O","P","Q","R","S","T","U","V","W","X","Y","Z" }

Digit == { "0","1","2","3","4","5","6","7","8","9" }

Alpha == Lower \cup Upper

\* \w
WordChar == Alpha \cup Digit \cup {"_"}

\* \s, without the newline: a line never holds one
WhiteSpace == { " ", "\t", "\r", "\f" }

\* [a-zA-Z_] and [a-zA-Z0-9_]
IdentStart == Alpha \cup {"_"}

IdentChar == Alpha \cup Digit \cup {"_"}

\* [0-9a-fA-F]
HexDigit == Digit \cup {"a","b","c","d","e","f","A","B","C","D","E","F"}

\* [a-zA-Z0-9_:-] of the HTML tag and attribute names
HtmlNameChar == Alpha \cup Digit \cup {"_", ":", "-"}

\* [\+\-\*\/\%\=\<\>\!\&\|\^\~\:\,\.\;] of the Python and JavaScript tables
OperatorChar ==
    { "+","-","*","/","%","=","<",">","!","&","|","^","~",":",",",".",";" }

\* [a-zA-Z0-9_\-\.\#\[\]\:\,\>\+\~\*] of the CSS selector rule
CssSelectorChar ==
    Alpha \cup Digit \cup { "_","-",".","#","[","]",":",",",">","+","~","*" }

\* [a-zA-Z\-] of the CSS property and at-rule rules
CssPropertyChar == Alpha \cup {"-"}

\* [\{\}\;\:\,] of the CSS table
CssPunctuation == { "{","}",";",":","," }

NoMatch == -1

\* ------------------------------------------------------------------------
\* Sequences of characters
\* ------------------------------------------------------------------------

Min(a, b) == IF a <= b THEN a ELSE b

Max(a, b) == IF a >= b THEN a ELSE b

\* The character of line at 0-based column i, seen through a string that is
\* e characters long; "" (no character) outside it.
CharAt(line, i, e) == IF i >= 0 /\ i < e /\ i < Len(line) THEN line[i + 1] ELSE ""

\* line[i : i + Len(lit)] == lit
LitAt(line, i, e, lit) ==
    /\ i >= 0
    /\ i + Len(lit) <= e
    /\ \A k \in 1..Len(lit) : line[i + k] = lit[k]

\* The end of the longest run of characters of class cls that starts at i.
RunEnd(line, i, e, cls) ==
    IF \E j \in i..(e - 1) : line[j + 1] \notin cls
    THEN CHOOSE j \in i..(e - 1) :
             /\ line[j + 1] \notin cls
             /\ \A k \in i..(j - 1) : line[k + 1] \in cls
    ELSE Max(i, e)

\* The least column >= from where lit starts within the first e characters
\* of line, or -1.
FindIn(line, lit, from, e) ==
    IF \E j \in from..(e - Len(lit)) : LitAt(line, j, e, lit)
    THEN CHOOSE j \in from..(e - Len(lit)) :
             /\ LitAt(line, j, e, lit)
             /\ \A k \in from..(j - 1) : ~LitAt(line, k, e, lit)
    ELSE -1

\* str.find(lit, from)
Find(line, lit, from) == FindIn(line, lit, from, Len(line))

\* str.rfind: the greatest column where lit starts, or -1.
RFind(line, lit) ==
    IF \E j \in 0..(Len(line) - Len(lit)) : LitAt(line, j, Len(line), lit)
    THEN CHOOSE j \in 0..(Len(line) - Len(lit)) :
             /\ LitAt(line, j, Len(line), lit)
             /\ \A k \in (j + 1)..(Len(line) - Len(lit)) : ~LitAt(line, k, Len(line), lit)
    ELSE -1

\* line[a : b]
Slice(line, a, b) == SubSeq(line, a + 1, Min(b, Len(line)))

\* \b at column i
WordBoundary(line, i, e) ==
    (CharAt(line, i - 1, e) \in WordChar) # (CharAt(line, i, e) \in WordChar)

\* text.split('\n')
RECURSIVE SplitFrom(_, _, _)
SplitFrom(text, i, cur) ==
    IF i > Len(text) THEN <<cur>>
    ELSE IF text[i] = NL THEN <<cur>> \o SplitFrom(text, i + 1, <<>>)
    ELSE SplitFrom(text, i + 1, Append(cur, text[i]))

Split(text) == SplitFrom(text, 1, <<>>)

\* ------------------------------------------------------------------------
\* The regular expressions of the rule tables.  Each operator gives the end
\* of the match of its pattern that starts at column pos of a string that is
\* e characters long (regex.search(line, pos, e) with match.start() == pos),
\* or NoMatch.
\* ------------------------------------------------------------------------

\* The part of a quoted string after its opening quote q:
\* [^q\\]*(?:\\.[^q\\]*)*q
RECURSIVE QuotedEnd(_, _, _, _)
QuotedEnd(line, i, e, q) ==
    IF i >= e THEN NoMatch
    ELSE IF line[i + 1] = q THEN i + 1
    ELSE IF line[i + 1] = "\\"
         THEN IF i + 1 < e THEN QuotedEnd(line, i + 2, e, q) ELSE NoMatch
    ELSE QuotedEnd(line, i + 1, e, q)

\* "[^"\\]*(?:\\.[^"\\]*)*"|'[^'\\]*(?:\\.[^'\\]*)*'
QuotedString(line, pos, e) ==
    IF CharAt(line, pos, e) = "\"" THEN QuotedEnd(line, pos + 1, e, "\"")
    ELSE IF CharAt(line, pos, e) = "'" THEN QuotedEnd(line, pos + 1, e, "'")
    ELSE NoMatch

\* A literal opener, then .*? up to the first literal closer.
Delimited(line, pos, e, opener, closer) ==
    IF LitAt(line, pos, e, opener)
    THEN LET j == FindIn(line, closer, pos + Len(opener), e)
         IN  IF j = -1 THEN NoMatch ELSE j + Len(closer)
    ELSE NoMatch

\* """.*?"""|'''.*?'''
TripleQuoted(line, pos, e) ==
    LET dq == Delimited(line, pos, e, <<"\"","\"","\"">>, <<"\"","\"","\"">>)
    IN  IF dq # NoMatch THEN dq
        ELSE Delimited(line, pos, e, <<"'","'","'">>, <<"'","'","'">>)

\* #.*$ and \/\/.*$ : the opener, then the rest of the line
LineComment(line, pos, e, opener) ==
    IF LitAt(line, pos, e, opener) THEN e ELSE NoMatch

\* \b(k1|k2|...)\b : every keyword is made of word characters, so the match
\* is the whole run of word characters at pos
Keyword(line, pos, e, keywords) ==
    LET r == RunEnd(line, pos, e, WordChar)
    IN  IF r > pos /\ WordBoundary(line, pos, e) /\ Slice(line, pos, r) \in keywords
        THEN r ELSE NoMatch

\* @\w+
Decorator(line, pos, e) ==
    LET r == RunEnd(line, pos + 1, e, WordChar)
    IN  IF CharAt(line, pos, e) = "@" /\ r > pos + 1 THEN r ELSE NoMatch

\* \b\d+\.\d+\b|\b\d+\b
Number(line, pos, e) ==
    LET d1 == RunEnd(line, pos, e, Digit)
        d2 == RunEnd(line, d1 + 1, e, Digit)
    IN  IF ~(d1 > pos /\ WordBoundary(line, pos, e)) THEN NoMatch
        ELSE IF CharAt(line, d1, e) = "." /\ d2 > d1 + 1 /\ WordBoundary(line, d2, e)
             THEN d2
        ELSE IF WordBoundary(line, d1, e) THEN d1
        ELSE NoMatch

\* word\s+([a-zA-Z_][a-zA-Z0-9_]*) for word = def, class, function
WordThenName(line, pos, e, word) ==
    LET w == RunEnd(line, pos + Len(word), e, WhiteSpace)
    IN  IF /\ LitAt(line, pos, e, word)
           /\ w > pos + Len(word)
           /\ CharAt(line, w, e) \in IdentStart
        THEN RunEnd(line, w + 1, e, IdentChar)
        ELSE NoMatch

\* ([a-zA-Z_][a-zA-Z0-9_]*)\s*\(
CallPattern(line, pos, e) ==
    LET r == RunEnd(line, pos + 1, e, IdentChar)
        w == RunEnd(line, r, e, WhiteSpace)
    IN  IF CharAt(line, pos, e) \in IdentStart /\ CharAt(line, w, e) = "("
        THEN w + 1 ELSE NoMatch

\* ([a-zA-Z_][a-zA-Z0-9_]*)\s*=\s*function
AssignFunction(line, pos, e) ==
    LET r  == RunEnd(line, pos + 1, e, IdentChar)
        w1 == RunEnd(line, r, e, WhiteSpace)
        w2 == RunEnd(line, w1 + 1, e, WhiteSpace)
    IN  IF /\ CharAt(line, pos, e) \in IdentStart
           /\ CharAt(line, w1, e) = "="
           /\ LitAt(line, w2, e, <<"f","u","n","c","t","i","o","n">>)
        THEN w2 + 8 ELSE NoMatch

\* ([a-zA-Z_][a-zA-Z0-9_]*)\s*\([^)]*\)\s*=>
ArrowFunction(line, pos, e) ==
    LET r  == RunEnd(line, pos + 1, e, IdentChar)
        w1 == RunEnd(line, r, e, WhiteSpace)
        c  == FindIn(line, <<")">>, w1 + 1, e)
        w2 == RunEnd(line, c + 1, e, WhiteSpace)
    IN  IF /\ CharAt(line, pos, e) \in IdentStart
           /\ CharAt(line, w1, e) = "("
           /\ c # -1
           /\ LitAt(line, w2, e, <<"=",">">>)
        THEN w2 + 2 ELSE NoMatch

\* One character of a class
OneOf(line, pos, e, cls) ==
    IF CharAt(line, pos, e) \in cls THEN pos + 1 ELSE NoMatch

\* A literal
Literal(line, pos, e, lit) ==
    IF LitAt(line, pos, e, lit) THEN pos + Len(lit) ELSE NoMatch

\* <!DOCTYPE[^>]*>
Doctype(line, pos, e) ==
    Delimited(line, pos, e, <<"<","!","D","O","C","T","Y","P","E">>, <<">">>)

\* <([a-zA-Z][a-zA-Z0-9_:-]*) and </([a-zA-Z][a-zA-Z0-9_:-]*)
TagName(line, pos, e, opener) ==
    LET n == pos + Len(opener)
    IN  IF LitAt(line, pos, e, opener) /\ CharAt(line, n, e) \in Alpha
        THEN RunEnd(line, n + 1, e, HtmlNameChar)
        ELSE NoMatch

\* \s([a-zA-Z][a-zA-Z0-9_:-]*)\s*=
Attribute(line, pos, e) ==
    LET r == RunEnd(line, pos + 2, e, HtmlNameChar)
        w == RunEnd(line, r, e, WhiteSpace)
    IN  IF /\ CharAt(line, pos, e) \in WhiteSpace
           /\ CharAt(line, pos + 1, e) \in Alpha
           /\ CharAt(line, w, e) = "="
        THEN w + 1 ELSE NoMatch

\* [a-zA-Z0-9_\-\.\#\[\]\:\,\>\+\~\*]+\s*\{
Selector(line, pos, e) ==
    LET r == RunEnd(line, pos, e, CssSelectorChar)
        w == RunEnd(line, r, e, WhiteSpace)
    IN  IF r > pos /\ CharAt(line, w, e) = "{" THEN w + 1 ELSE NoMatch

\* ([a-zA-Z\-]+)\s*:
Property(line, pos, e) ==
    LET r == RunEnd(line, pos, e, CssPropertyChar)
        w == RunEnd(line, r, e, WhiteSpace)
    IN  IF r > pos /\ CharAt(line, w, e) = ":" THEN w + 1 ELSE NoMatch

\* :\s*([^;]+); : [^;]+ takes at least one character, which \s* gives back
\* when the value is blank
Value(line, pos, e) ==
    LET j == FindIn(line, <<";">>, pos + 1, e)
    IN  IF CharAt(line, pos, e) = ":" /\ j >= pos + 2 THEN j + 1 ELSE NoMatch

\* #[0-9a-fA-F]{3,6}
Color(line, pos, e) ==
    LET h == RunEnd(line, pos + 1, e, HexDigit)
    IN  IF CharAt(line, pos, e) = "#" /\ h - (pos + 1) >= 3
        THEN pos + 1 + Min(h - (pos + 1), 6)
        ELSE NoMatch

CssUnits ==
    { <<"%">>, <<"p","x">>, <<"e","m">>, <<"r","e","m">>, <<"v","h">>, <<"v","w">>, <<"p","t">>,
      <<"p","c">>, <<"i","n">>, <<"c","m">>, <<"m","m">>, <<"e","x">>, <<"c","h">>,
      <<"v","m","i","n">>, <<"v","m","a","x">> }

\* (%|px|em|...)\b at column p: no unit is the start of another unit that a
\* word boundary could follow, so at most one alternative succeeds
UnitEnd(line, p, e) ==
    LET ok == { u \in CssUnits :
                  LitAt(line, p, e, u) /\ WordBoundary(line, p + Len(u), e) }
    IN  IF ok = {} THEN NoMatch ELSE p + Len(CHOOSE u \in ok : TRUE)

\* (%|px|em|...)?\b at column p
UnitOrBoundary(line, p, e) ==
    IF UnitEnd(line, p, e) # NoMatch THEN UnitEnd(line, p, e)
    ELSE IF WordBoundary(line, p, e) THEN p
    ELSE NoMatch

\* \b\d+\.?\d*(%|px|em|rem|vh|vw|pt|pc|in|cm|mm|ex|ch|vmin|vmax)?\b, in the
\* order the backtracking matcher tries: the dot and all the digits after it,
\* then the dot alone, then no dot
CssNumber(line, pos, e) ==
    LET d1 == RunEnd(line, pos, e, Digit)
        d2 == RunEnd(line, d1 + 1, e, Digit)
    IN  IF ~(d1 > pos /\ WordBoundary(line, pos, e)) THEN NoMatch
        ELSE IF CharAt(line, d1, e) = "."
             THEN IF UnitOrBoundary(line, d2, e) # NoMatch
                  THEN UnitOrBoundary(line, d2, e)
                  ELSE IF d2 > d1 + 1 THEN d1 + 1 ELSE d1
        ELSE UnitOrBoundary(line, d1, e)

\* @media\b
AtMedia(line, pos, e) ==
    IF LitAt(line, pos, e, <<"@","m","e","d","i","a">>) /\ WordBoundary(line, pos + 6, e)
    THEN pos + 6 ELSE NoMatch

\* @[a-zA-Z\-]+
AtRule(line, pos, e) ==
    LET r == RunEnd(line, pos + 1, e, CssPropertyChar)
    IN  IF CharAt(line, pos, e) = "@" /\ r > pos + 1 THEN r ELSE NoMatch

PyKeywords ==
    { <<"a","n","d">>, <<"a","s">>, <<"a","s","s","e","r","t">>, <<"a","s","y","n","c">>,
      <<"a","w","a","i","t">>, <<"b","r","e","a","k">>, <<"c","l","a","s","s">>,
      <<"c","o","n","t","i","n","u","e">>, <<"d","e","f">>, <<"d","e","l">>, <<"e","l","i","f">>,
      <<"e","l","s","e">>, <<"e","x","c","e","p","t">>, <<"f","i","n","a","l","l","y">>,
      <<"f","o","r">>, <<"f","r","o","m">>, <<"g","l","o","b","a","l">>, <<"i","f">>,
      <<"i","m","p","o","r","t">>, <<"i","n">>, <<"i","s">>, <<"l","a","m","b","d","a">>,
      <<"n","o","n","l","o","c","a","l">>, <<"n","o","t">>, <<"o","r">>, <<"p","a","s","s">>,
      <<"r","a","i","s","e">>, <<"r","e","t","u","r","n">>, <<"t","r","y">>,
      <<"w","h","i","l","e">>, <<"w","i","t","h">>, <<"y","i","e","l","d">> }

JsKeywords ==
    { <<"b","r","e","a","k">>, <<"c","a","s","e">>, <<"c","a","t","c","h">>,
      <<"c","l","a","s","s">>, <<"c","o","n","s","t">>, <<"c","o","n","t","i","n","u","e">>,
      <<"d","e","b","u","g","g","e","r">>, <<"d","e","f","a","u","l","t">>,
      <<"d","e","l","e","t","e">>, <<"d","o">>, <<"e","l","s","e">>, <<"e","x","p","o","r","t">>,
      <<"e","x","t","e","n","d","s">>, <<"f","i","n","a","l","l","y">>, <<"f","o","r">>,
      <<"f","u","n","c","t","i","o","n">>, <<"i","f">>, <<"i","m","p","o","r","t">>, <<"i","n">>,
      <<"i","n","s","t","a","n","c","e","o","f">>, <<"n","e","w">>, <<"r","e","t","u","r","n">>,
      <<"s","u","p","e","r">>, <<"s","w","i","t","c","h">>, <<"t","h","i","s">>,
      <<"t","h","r","o","w">>, <<"t","r","y">>, <<"t","y","p","e","o","f">>, <<"v","a","r">>,
      <<"v","o","i","d">>, <<"w","h","i","l","e">>, <<"w","i","t","h">>, <<"y","i","e","l","d">>,
      <<"l","e","t">>, <<"s","t","a","t","i","c">>, <<"e","n","u","m">>, <<"a","w","a","i","t">>,
      <<"i","m","p","l","e","m","e","n","t","s">>, <<"p","a","c","k","a","g","e">>,
      <<"p","r","o","t","e","c","t","e","d">>, <<"i","n","t","e","r","f","a","c","e">>,
      <<"p","r","i","v","a","t","e">>, <<"p","u","b","l","i","c">> }

\* ------------------------------------------------------------------------
\* The rule tables (self.patterns), in the order of the source
\* ------------------------------------------------------------------------

\* PythonPatterns with the def rule tried before the keyword rule
PythonPatternsDefFirst ==
    << [rule |-> "triple_quoted",   type |-> "string"],
       [rule |-> "quoted",          type |-> "string"],
       [rule |-> "hash_comment",    type |-> "comment"],
       [rule |-> "def_name",        type |-> "function"],
       [rule |-> "py_keyword",      type |-> "keyword"],
       [rule |-> "decorator",       type |-> "decorator"],
       [rule |-> "number",          type |-> "number"],
       [rule |-> "class_name",      type |-> "class"],
       [rule |-> "call",            type |-> "function"],
       [rule |-> "operator",        type |-> "operator"] >>

PythonPatterns ==
    << [rule |-> "triple_quoted",   type |-> "string"],
       [rule |-> "quoted",          type |-> "string"],
       [rule |-> "hash_comment",    type |-> "comment"],
       [rule |-> "py_keyword",      type |-> "keyword"],
       [rule |-> "decorator",       type |-> "decorator"],
       [rule |-> "number",          type |-> "number"],
       [rule |-> "def_name",        type |-> "function"],
       [rule |-> "class_name",      type |-> "class"],
       [rule |-> "call",            type |-> "function"],
       [rule |-> "operator",        type |-> "operator"] >>

JavaScriptPatterns ==
    << [rule |-> "block_comment",   type |-> "comment"],
       [rule |-> "slash_comment",   type |-> "comment"],
       [rule |-> "backtick",        type |-> "string"],
       [rule |-> "interp_open",     type |-> "operator"],
       [rule |-> "brace_close",     type |-> "operator"],
       [rule |-> "quoted",          type |-> "string"],
       [rule |-> "js_keyword",      type |-> "keyword"],
       [rule |-> "number",          type |-> "number"],
       [rule |-> "function_name",   type |-> "function"],
       [rule |-> "assign_function", type |-> "function"],
       [rule |-> "arrow_function",  type |-> "function"],
       [rule |-> "class_name",      type |-> "class"],
       [rule |-> "call",            type |-> "function"],
       [rule |-> "operator",        type |-> "operator"] >>

HTMLPatterns ==
    << [rule |-> "html_comment",    type |-> "comment"],
       [rule |-> "doctype",         type |-> "tag"],
       [rule |-> "open_tag",        type |-> "tag"],
       [rule |-> "close_tag",       type |-> "tag"],
       [rule |-> "tag_end",         type |-> "tag"],
       [rule |-> "self_close",      type |-> "tag"],
       [rule |-> "attribute",       type |-> "attribute"],
       [rule |-> "quoted",          type |-> "string"] >>

CSSPatterns ==
    << [rule |-> "block_comment",   type |-> "comment"],
       [rule |-> "selector",        type |-> "tag"],
       [rule |-> "property",        type |-> "property"],
       [rule |-> "value",           type |-> "value"],
       [rule |-> "color",           type |-> "number"],
       [rule |-> "css_number",      type |-> "number"],
       [rule |-> "important",       type |-> "keyword"],
       [rule |-> "at_media",        type |-> "keyword"],
       [rule |-> "at_rule",         type |-> "keyword"],
       [rule |-> "punctuation",     type |-> "operator"] >>

\* The match of one rule's pattern at column pos
RuleEnd(rule, line, pos, e) ==
    CASE rule = "triple_quoted"   -> TripleQuoted(line, pos, e)
      [] rule = "quoted"          -> QuotedString(line, pos, e)
      [] rule = "hash_comment"    -> LineComment(line, pos, e, <<"#">>)
      [] rule = "py_keyword"      -> Keyword(line, pos, e, PyKeywords)
      [] rule = "decorator"       -> Decorator(line, pos, e)
      [] rule = "number"          -> Number(line, pos, e)
      [] rule = "def_name"        -> WordThenName(line, pos, e, <<"d","e","f">>)
      [] rule = "class_name"      -> WordThenName(line, pos, e, <<"c","l","a","s","s">>)
      [] rule = "call"            -> CallPattern(line, pos, e)
      [] rule = "operator"        -> OneOf(line, pos, e, OperatorChar)
      [] rule = "block_comment"   -> Delimited(line, pos, e, <<"/","*">>, <<"*","/">>)
      [] rule = "slash_comment"   -> LineComment(line, pos, e, <<"/","/">>)
      [] rule = "backtick"        -> Literal(line, pos, e, <<Backtick>>)
      [] rule = "interp_open"     -> Literal(line, pos, e, <<"$","{">>)
      [] rule = "brace_close"     -> Literal(line, pos, e, <<"}">>)
      [] rule = "js_keyword"      -> Keyword(line, pos, e, JsKeywords)
      [] rule = "function_name"   ->
             WordThenName(line, pos, e, <<"f","u","n","c","t","i","o","n">>)
      [] rule = "assign_function" -> AssignFunction(line, pos, e)
      [] rule = "arrow_function"  -> ArrowFunction(line, pos, e)
      [] rule = "html_comment"    ->
             Delimited(line, pos, e, <<"<","!","-","-">>, <<"-","-",">">>)
      [] rule = "doctype"         -> Doctype(line, pos, e)
      [] rule = "open_tag"        -> TagName(line, pos, e, <<"<">>)
      [] rule = "close_tag"       -> TagName(line, pos, e, <<"<","/">>)
      [] rule = "tag_end"         -> Literal(line, pos, e, <<">">>)
      [] rule = "self_close"      -> Literal(line, pos, e, <<"/",">">>)
      [] rule = "attribute"       -> Attribute(line, pos, e)
      [] rule = "selector"        -> Selector(line, pos, e)
      [] rule = "property"        -> Property(line, pos, e)
      [] rule = "value"           -> Value(line, pos, e)
      [] rule = "color"           -> Color(line, pos, e)
      [] rule = "css_number"      -> CssNumber(line, pos, e)
      [] rule = "important"       ->
             Literal(line, pos, e, <<"!","i","m","p","o","r","t","a","n","t">>)
      [] rule = "at_media"        -> AtMedia(line, pos, e)
      [] rule = "at_rule"         -> AtRule(line, pos, e)
      [] rule = "punctuation"     -> OneOf(line, pos, e, CssPunctuation)

\* ------------------------------------------------------------------------
\* The scan shared by the four tokenizers
\* ------------------------------------------------------------------------

Token(type, line_no, from, to) ==
    [type |-> type, start |-> <<line_no, from>>, end |-> <<line_no, to>>]

\* FirstOf with the last rule that matches winning
LastOf(hits) == IF hits = {} THEN 0 ELSE CHOOSE i \in hits : \A k \in hits : i >= k

\* The least element of a set of rule indexes, 0 for the empty set
FirstOf(hits) == IF hits = {} THEN 0 ELSE CHOOSE i \in hits : \A k \in hits : i <= k

\* The for loop over the table: the index of the first rule whose match
\* starts exactly at pos, or 0 when the loop ends without a break.
FirstMatch(patterns, line, pos, e) ==
    FirstOf({ i \in DOMAIN patterns : RuleEnd(patterns[i].rule, line, pos, e) # NoMatch })

\* Matched without "line_pos = match.end()": only the step of the test after
\* the for loop moves the column
MatchedNotMoved(type, line_no, pos, end) ==
    [ tokens |-> <<Token(type, line_no, pos, end)>>, pos |-> pos + 1 ]

\* The break of the for loop: the token of the match from pos to end, and
\* line_pos = match.end().  The test that follows the for loop, "not match or
\* match.start() != line_pos", then compares the start of the match with the
\* column already moved, and moves it once more.
Matched(type, line_no, pos, end) ==
    [ tokens |-> <<Token(type, line_no, pos, end)>>,
      pos    |-> IF pos # end THEN end + 1 ELSE end ]

\* Unmatched without "line_pos += 1"
UnmatchedNotMoved(pos) == [ tokens |-> <<>>, pos |-> pos ]

\* The for loop ended without a break: "if not match or match.start() !=
\* line_pos" holds, no token, one character on.
Unmatched(pos) == [ tokens |-> <<>>, pos |-> pos + 1 ]

\* One pass of the "look for tokens" block at column pos, rule i being the
\* first to match there: the token appended (if any) and the column reached.
StepOfRule(patterns, line, line_no, pos, e, i) ==
    IF i = 0 THEN Unmatched(pos)
    ELSE Matched(patterns[i].type, line_no, pos, RuleEnd(patterns[i].rule, line, pos, e))

TableStep(patterns, line, line_no, pos, e) ==
    StepOfRule(patterns, line, line_no, pos, e, FirstMatch(patterns, line, pos, e))

\* The inner "while current_pos < limit" loop of the interpolation branch
RECURSIVE TableScan(_, _, _, _, _, _)
RECURSIVE TableScanAfter(_, _, _, _, _, _)
TableScan(patterns, line, line_no, current_pos, limit, e) ==
    IF current_pos >= limit THEN <<>>
    ELSE TableScanAfter(patterns, line, line_no, limit, e,
                        TableStep(patterns, line, line_no, current_pos, e))

TableScanAfter(patterns, line, line_no, limit, e, st) ==
    st.tokens \o TableScan(patterns, line, line_no, st.pos, limit, e)

\* The rules the interpolation branch skips: pattern in (r'`', r'\${', r'}')
IsTemplatePattern(p) == p.rule \in {"backtick", "interp_open", "brace_close"}

NotTemplatePattern(p) == ~IsTemplatePattern(p)

InterpolationPatterns == SelectSeq(JavaScriptPatterns, NotTemplatePattern)

\* The rules the HTML in-tag branch skips: token_type == 'comment'
NotCommentPattern(p) == p.type # "comment"

InTagPatterns == SelectSeq(HTMLPatterns, NotCommentPattern)

\* ------------------------------------------------------------------------
\* One iteration of "while line_pos < len(line)" of each tokenizer, on the
\* scanner's local variables s
\* ------------------------------------------------------------------------

\* The local variables at the start of a tokenize call
InitialScanner ==
    [ line_num |-> 1, line_pos |-> 0, tokens |-> <<>>,
      in_template_string |-> FALSE, in_interpolation |-> FALSE,
      in_tag |-> FALSE, in_string |-> FALSE, in_comment |-> FALSE ]

\* tokens.append(...) and the new line_pos of one pass of the table
AfterStep(s, st) == [s EXCEPT !.tokens = @ \o st.tokens, !.line_pos = st.pos]

\* PythonTokenizer.tokenize and CSSTokenizer.tokenize
PlainIteration(patterns, line, s) ==
    IF ~s.in_string /\ ~s.in_comment
    THEN AfterStep(s, TableStep(patterns, line, s.line_num, s.line_pos, Len(line)))
    ELSE [s EXCEPT !.line_pos = @ + 1]

\* TemplateIteration without the look-ahead for a backtick or "${"
TemplateIterationRestOfLine(line, s) ==
    [s EXCEPT
        !.tokens = Append(@, Token("string", s.line_num, s.line_pos, Len(line))),
        !.line_pos = Len(line)]

\* JavaScriptTokenizer.tokenize, in a template string outside ${ }
TemplateIteration(line, s) ==
    LET n            == s.line_num
        backtick_pos == Find(line, <<Backtick>>, s.line_pos)
        interp_pos   == Find(line, <<"$","{">>, s.line_pos)
    IN  IF backtick_pos # -1 /\ (interp_pos = -1 \/ backtick_pos < interp_pos)
        THEN [s EXCEPT
                !.tokens = @ \o (IF s.line_pos < backtick_pos
                                 THEN <<Token("string", n, s.line_pos, backtick_pos)>>
                                 ELSE <<>>)
                             \o <<Token("string", n, backtick_pos, backtick_pos + 1)>>,
                !.in_template_string = FALSE,
                !.line_pos = backtick_pos + 1]
        ELSE IF interp_pos # -1
        THEN [s EXCEPT
                !.tokens = @ \o (IF s.line_pos < interp_pos
                                 THEN <<Token("string", n, s.line_pos, interp_pos)>>
                                 ELSE <<>>)
                             \o <<Token("operator", n, interp_pos, interp_pos + 2)>>,
                !.line_pos = interp_pos + 2,
                !.in_interpolation = TRUE]
        ELSE [s EXCEPT
                !.tokens = Append(@, Token("string", n, s.line_pos, Len(line))),
                !.line_pos = Len(line)]

\* InterpolationClosed without "in_interpolation = False"
InterpolationClosedModeKept(s, n, brace_pos, content) ==
    [s EXCEPT
        !.tokens = @ \o content \o <<Token("operator", n, brace_pos, brace_pos + 1)>>,
        !.line_pos = brace_pos + 1]

\* JavaScriptTokenizer.tokenize, inside ${ }: the table runs up to the first
\* "}" of the line, with the searches cut there (regex.search(line,
\* current_pos, brace_pos)), or to the end of the line when there is none
InterpolationClosed(s, n, brace_pos, content) ==
    [s EXCEPT
        !.tokens = @ \o content \o <<Token("operator", n, brace_pos, brace_pos + 1)>>,
        !.line_pos = brace_pos + 1,
        !.in_interpolation = FALSE]

InterpolationOpen(s, line, content) ==
    [s EXCEPT !.tokens = @ \o content, !.line_pos = Len(line)]

InterpolationUpTo(line, s, brace_pos, limit) ==
    IF brace_pos # -1
    THEN InterpolationClosed(s, s.line_num, brace_pos,
             TableScan(InterpolationPatterns, line, s.line_num, s.line_pos, limit, limit))
    ELSE InterpolationOpen(s, line,
             TableScan(InterpolationPatterns, line, s.line_num, s.line_pos, limit, limit))

InterpolationLimit(line, brace_pos) == IF brace_pos # -1 THEN brace_pos ELSE Len(line)

InterpolationIteration(line, s) ==
    InterpolationUpTo(line, s, Find(line, <<"}">>, s.line_pos),
                      InterpolationLimit(line, Find(line, <<"}">>, s.line_pos)))

\* JavaScriptTokenizer.tokenize, normal processing
NormalIteration(line, s) ==
    IF Slice(line, s.line_pos, s.line_pos + 1) = <<Backtick>>
    THEN [s EXCEPT
            !.tokens = Append(@, Token("string", s.line_num, s.line_pos, s.line_pos + 1)),
            !.in_template_string = TRUE,
            !.line_pos = @ + 1]
    ELSE AfterStep(s, TableStep(JavaScriptPatterns, line, s.line_num, s.line_pos, Len(line)))

JavaScriptIteration(line, s) ==
    IF s.in_template_string /\ ~s.in_interpolation THEN TemplateIteration(line, s)
    ELSE IF s.in_template_string /\ s.in_interpolation THEN InterpolationIteration(line, s)
    ELSE NormalIteration(line, s)

\* HtmlCommentIteration without the look-ahead for "-->"
HtmlCommentToLineEnd(line, s) ==
    [s EXCEPT
        !.tokens = Append(@, Token("comment", s.line_num, s.line_pos, Len(line))),
        !.line_pos = Len(line)]

\* HtmlCommentIteration with the unclosed comment running one column past the
\* end of the line
HtmlCommentPastEnd(line, s) ==
    LET comment_end == Find(line, <<"-","-",">">>, s.line_pos)
    IN  IF comment_end # -1
        THEN [s EXCEPT
                !.tokens = Append(@, Token("comment", s.line_num, s.line_pos, comment_end + 3)),
                !.line_pos = comment_end + 3]
        ELSE [s EXCEPT
                !.tokens = Append(@, Token("comment", s.line_num, s.line_pos, Len(line) + 1)),
                !.line_pos = Len(line) + 1]

\* HTMLTokenizer.tokenize: the comment check
HtmlCommentIteration(line, s) ==
    LET comment_end == Find(line, <<"-","-",">">>, s.line_pos)
    IN  IF comment_end # -1
        THEN [s EXCEPT
                !.tokens = Append(@, Token("comment", s.line_num, s.line_pos, comment_end + 3)),
                !.line_pos = comment_end + 3]
        ELSE [s EXCEPT
                !.tokens = Append(@, Token("comment", s.line_num, s.line_pos, Len(line))),
                !.line_pos = Len(line)]

\* HTMLTokenizer.tokenize: inside a tag the table, outside the jump to the
\* next "<"
HtmlTagIteration(line, s) ==
    IF s.in_tag
    THEN AfterStep(s, TableStep(InTagPatterns, line, s.line_num, s.line_pos, Len(line)))
    ELSE LET next_tag == Find(line, <<"<">>, s.line_pos)
         IN  [s EXCEPT !.line_pos = IF next_tag # -1 THEN next_tag ELSE Len(line)]

\* The tag state checks: "<!" or "<" at the cursor sets in_tag
TagOpens(line, p) ==
    \/ p < Len(line) - 1 /\ Slice(line, p, p + 2) = <<"<","!">>
    \/ p < Len(line) /\ line[p + 1] = "<"

HTMLIteration(line, s) ==
    IF s.line_pos < Len(line) - 3 /\ Slice(line, s.line_pos, s.line_pos + 4) = <<"<","!","-","-">>
    THEN HtmlCommentIteration(line, s)
    ELSE IF ~TagOpens(line, s.line_pos) /\ s.line_pos < Len(line) /\ line[s.line_pos + 1] = ">"
    THEN [s EXCEPT
            !.tokens = Append(@, Token("tag", s.line_num, s.line_pos, s.line_pos + 1)),
            !.in_tag = FALSE,
            !.line_pos = s.line_pos + 1]
    ELSE HtmlTagIteration(line, [s EXCEPT !.in_tag = TagOpens(line, s.line_pos) \/ @])

\* The language registry of SyntaxHighlighter.__init__
Languages == {"python", "javascript", "html", "css"}

Iteration(language, line, s) ==
    CASE language = "python"     -> PlainIteration(PythonPatterns, line, s)
      [] language = "css"        -> PlainIteration(CSSPatterns, line, s)
      [] language = "javascript" -> JavaScriptIteration(line, s)
      [] language = "html"       -> HTMLIteration(line, s)

\* NextLine without "line_pos = 0": the column is carried into the next line
NextLineColumnKept(s) == [s EXCEPT !.line_num = @ + 1]

\* NextLine with the modes of the JavaScript scan started anew on each line
NextLineModeReset(s) ==
    [s EXCEPT !.line_num = @ + 1, !.line_pos = 0,
              !.in_template_string = FALSE, !.in_interpolation = FALSE]

\* for line_num, line in enumerate(lines, 1): the next line, column 0
NextLine(s) == [s EXCEPT !.line_num = @ + 1, !.line_pos = 0]

\* The scan from the local variables s to the end of the text
RECURSIVE RunScan(_, _, _)
RunScan(language, lines, s) ==
    IF s.line_pos < Len(lines[s.line_num])
    THEN RunScan(language, lines, Iteration(language, lines[s.line_num], s))
    ELSE IF s.line_num < Len(lines)
    THEN RunScan(language, lines, NextLine(s))
    ELSE s

\* tokenizer.tokenize(text)
Tokenize(language, text) == RunScan(language, Split(text), InitialScanner).tokens

\* ------------------------------------------------------------------------
\* The text widget: its characters d (the final newline the widget always
\* keeps included) and, for each character, the set of tags it carries
\* ------------------------------------------------------------------------

\* The tags configured by _setup_tags, and the widget's own selection tag:
\* text.tag_names()
StyleTags ==
    { "keyword", "string", "comment", "number", "function", "class", "operator",
      "decorator", "tag", "attribute", "property", "value" }

TagNames == StyleTags \cup {"sel"}

\* The lines of the widget: those of its characters before the final newline
WidgetLines(d) == Split(SubSeq(d, 1, Len(d) - 1))

\* The offset in d of the first character of line k
RECURSIVE LineStart(_, _)
LineStart(ls, k) == IF k <= 1 THEN 1 ELSE LineStart(ls, k - 1) + Len(ls[k - 1]) + 1

\* The widget's reading of the index "line.col": the offset in d of the
\* character it names.  A column past the end of the line names the newline
\* that ends it, a line past the last line names the end of the text.
TkIndex(d, index) ==
    IF index[1] > Len(WidgetLines(d)) THEN Len(d) + 1
    ELSE LineStart(WidgetLines(d), Max(index[1], 1))
             + Min(Max(index[2], 0), Len(WidgetLines(d)[Max(index[1], 1)]))

\* _get_index_from_position: the index "line.col" of a (line, column) pair
IndexFromPosition(position) == <<position[1], position[2]>>

\* text.tag_add(tag, i1, i2) and text.tag_remove(tag, i1, i2) on offsets
TagAdd(tg, tag, i1, i2) ==
    [i \in DOMAIN tg |-> IF i1 <= i /\ i < i2 THEN tg[i] \cup {tag} ELSE tg[i]]

TagRemove(tg, tag, i1, i2) ==
    [i \in DOMAIN tg |-> IF i1 <= i /\ i < i2 THEN tg[i] \ {tag} ELSE tg[i]]

\* text.get(i1, i2)
TextGet(d, i1, i2) == SubSeq(d, i1, Min(i2, Len(d) + 1) - 1)

\* ------------------------------------------------------------------------
\* SyntaxHighlighter.highlight_text
\* ------------------------------------------------------------------------

\* for tag in tag_names(): if tag != "sel": tag_remove(tag, "1.0", END)
RECURSIVE RemoveTags(_, _)
RemoveTags(tg, names) ==
    IF names = {} THEN tg
    ELSE RemoveTags(TagRemove(tg, CHOOSE n \in names : TRUE, 1, Len(tg) + 1),
                    names \ {CHOOSE n \in names : TRUE})

\* ClearStyleTags without the test tag != "sel"
ClearEveryTag(tg) == RemoveTags(tg, TagNames)

ClearStyleTags(tg) == RemoveTags(tg, { n \in TagNames : n # "sel" })

\* The operator tag on the character at paren_pos of a function token, when
\* rfind found one
ParenTag(d, tg, start, paren_pos) ==
    IF paren_pos >= 0
    THEN TagAdd(tg, "operator",
                TkIndex(d, <<start[1], start[2] + paren_pos>>),
                TkIndex(d, <<start[1], start[2] + paren_pos + 1>>))
    ELSE tg

\* ParenPos with find in place of rfind
ParenPosFirst(d, start_index, end_index) ==
    FindIn(TextGet(d, start_index, end_index), <<"(">>, 0,
           Len(TextGet(d, start_index, end_index)))

\* paren_pos = text.get(start_index, end_index).rfind("(")
ParenPos(d, start_index, end_index) == RFind(TextGet(d, start_index, end_index), <<"(">>)

\* The special handling of function tokens
FunctionParen(d, tg, tok) ==
    IF tok.type = "function"
    THEN ParenTag(d, tg, tok.start,
                  ParenPos(d, TkIndex(d, IndexFromPosition(tok.start)),
                              TkIndex(d, IndexFromPosition(tok.end))))
    ELSE tg

\* The body of "for token_type, start, end in tokens"
ApplyToken(d, tg, tok) ==
    IF tok.type \in TagNames
    THEN FunctionParen(d,
             TagAdd(tg, tok.type, TkIndex(d, IndexFromPosition(tok.start)),
                                  TkIndex(d, IndexFromPosition(tok.end))),
             tok)
    ELSE tg

RECURSIVE ApplyTokens(_, _, _, _)
ApplyTokens(d, tg, toks, k) ==
    IF k > Len(toks) THEN tg
    ELSE ApplyTokens(d, ApplyToken(d, tg, toks[k]), toks, k + 1)

\* HighlightText that returns after the removal when the document already
\* carries a style tag, taking it for highlighted
HighlightTextOnce(language_id, d, tg) ==
    IF language_id \notin Languages \/ (\E i \in DOMAIN tg : tg[i] \cap StyleTags # {})
    THEN ClearStyleTags(tg)
    ELSE ApplyTokens(d, ClearStyleTags(tg), Tokenize(language_id, d), 1)

\* HighlightText with the registry looked up before the tags are removed
HighlightTextLookupFirst(language_id, d, tg) ==
    IF language_id \notin Languages
    THEN tg
    ELSE ApplyTokens(d, ClearStyleTags(tg), Tokenize(language_id, d), 1)

\* highlight_text(language_id) on the widget (d, tg): the tags afterwards.
\* self.tokenizers.get(language_id) is None for an identifier outside the
\* registry, and the method returns after the removal.
HighlightText(language_id, d, tg) ==
    IF language_id \notin Languages
    THEN ClearStyleTags(tg)
    ELSE ApplyTokens(d, ClearStyleTags(tg), Tokenize(language_id, d), 1)

\* ------------------------------------------------------------------------
\* The text edits of SyntaxEditor
\* ------------------------------------------------------------------------

\* text.delete(1.0, END): every character but the final newline goes, and the
\* newline keeps its tags
DeleteAll(w) == [doc |-> <<NL>>, tagged |-> <<w.tagged[Len(w.tagged)]>>]

\* text.insert(END, content): the characters go in before the final newline.
\* A new character gets the tags carried by both of its neighbours.
NeighbourTags(w) ==
    IF Len(w.doc) > 1 THEN w.tagged[Len(w.tagged) - 1] \cap w.tagged[Len(w.tagged)] ELSE {}

InsertAtEnd(w, content) ==
    [ doc    |-> SubSeq(w.doc, 1, Len(w.doc) - 1) \o content \o <<NL>>,
      tagged |-> SubSeq(w.tagged, 1, Len(w.tagged) - 1)
                     \o [i \in 1..Len(content) |-> NeighbourTags(w)]
                     \o <<w.tagged[Len(w.tagged)]>> ]

\* The widget's insert of character ch before offset k: the new character
\* gets the tags carried by both of its neighbours
InsertChar(w, k, ch) ==
    [ doc    |-> SubSeq(w.doc, 1, k - 1) \o <<ch>> \o SubSeq(w.doc, k, Len(w.doc)),
      tagged |-> SubSeq(w.tagged, 1, k - 1)
                     \o << IF k > 1 THEN w.tagged[k - 1] \cap w.tagged[k] ELSE {} >>
                     \o SubSeq(w.tagged, k, Len(w.tagged)) ]

\* The widget's delete of the character at offset k
DeleteChar(w, k) ==
    [ doc    |-> SubSeq(w.doc, 1, k - 1) \o SubSeq(w.doc, k + 1, Len(w.doc)),
      tagged |-> SubSeq(w.tagged, 1, k - 1) \o SubSeq(w.tagged, k + 1, Len(w.tagged)) ]

\* _on_modified without edit_modified(False): the flag stays set
ModifiedHandledFlagKept(language_id, w) ==
    [ tagged |-> HighlightText(language_id, w.doc, w.tagged), edit_modified |-> TRUE,
      passes |-> 1 ]

\* _on_modified when edit_modified() is true: the flag is reset and the text
\* highlighted again, by one call of highlight_text
ModifiedHandled(language_id, w) ==
    [ tagged |-> HighlightText(language_id, w.doc, w.tagged), edit_modified |-> FALSE,
      passes |-> 1 ]

\* _on_modified without "if self.text.edit_modified()": the text is
\* highlighted at every <<Modified>> event
ModifiedSkippedHighlighted(language_id, w) ==
    [ tagged |-> HighlightText(language_id, w.doc, w.tagged), edit_modified |-> FALSE,
      passes |-> 1 ]

\* _on_modified when edit_modified() is false: nothing is done
ModifiedSkipped(language_id, w) ==
    [ tagged |-> w.tagged, edit_modified |-> FALSE, passes |-> 0 ]

\* ------------------------------------------------------------------------
\* Input texts: the scenarios of the specification, some longer texts, and
\* every text of at most MaxLen characters over a small alphabet per language
\* ------------------------------------------------------------------------

MaxLen == 3

MaxCalls == 2

MaxDocLen == 2

\* The <<Modified>> events that may wait in the queue of the event loop
MaxPending == 1

\* The length up to which a text is edited key by key
MaxEditLen == 1

\* "def foo():\n    return 1\n"
PythonScenario ==
    << "d", "e", "f", " ", "f", "o", "o", "(", ")", ":", NL, " ", " ", " ", " ", "r", "e",
       "t", "u", "r", "n", " ", "1", NL >>

\* "xdef foo": the def rule matches where the keyword rule cannot
PythonDefInside ==
    << "x", "d", "e", "f", " ", "f", "o", "o" >>

\* a quoted keyword, a comment, and on the next line  if 1.5:
PythonLiterals ==
    << "'", "i", "f", "'", " ", "#", "i", "f", NL, "i", "f", " ", "1", ".", "5", ":" >>

\* a triple-quoted string that opens on line 1 and closes on line 2
PythonTripleQuoted ==
    << "'", "'", "'", "a", NL, "b", "'", "'", "'" >>

\* a comment that opens on line 1 and closes on line 2, then a rule
CssCommentLines ==
    << "/", "*", " ", "a", NL, "b", " ", "*", "/", " ", "p", "{", "}" >>

\* x="if" : a quoted keyword right after an operator
QuotedAfterOperator ==
    << "x", "=", "\"", "i", "f", "\"" >>

\* "body { color: #fff; }"
CssScenario ==
    << "b", "o", "d", "y", " ", "{", " ", "c", "o", "l", "o", "r", ":", " ", "#", "f", "f",
       "f", ";", " ", "}" >>

\* "a{b:c;}" and, on the next line, a comment and a rule with a unit
CssRules ==
    << "a", "{", "b", ":", "c", ";", "}", NL, "/", "*", " ", "x", " ", "*", "/", " ", "p",
       " ", "{", " ", "m", ":", " ", "1", "0", "p", "x", ";", " ", "}" >>

\* the template string  hello ${x}  between grave accents, then ;
TemplateScenario ==
    << Backtick, "h", "e", "l", "l", "o", " ", "$", "{", "x", "}", Backtick, ";" >>

\* a template string whose interpolation holds the braces {a}
NestedInterpolation ==
    << Backtick, "$", "{", "{", "a", "}", "}", Backtick >>

\* "f((a)=>1": an arrow function whose token holds two (
ArrowScenario ==
    << "f", "(", "(", "a", ")", "=", ">", "1" >>

\* a template string and its interpolation, each left open at a line end
TemplateLines ==
    << Backtick, "a", NL, "$", "{", "b", NL, "}", "c", Backtick, ";" >>

\* x = , then a template string whose interpolation holds the call f(1)
TemplateCall ==
    << "x", " ", "=", " ", Backtick, "$", "{", "f", "(", "1", ")", "}", Backtick >>

\* <a href="v">t "q"</a>
HtmlElement ==
    << "<", "a", " ", "h", "r", "e", "f", "=", "\"", "v", "\"", ">", "t", " ", "\"", "q",
       "\"", "<", "/", "a", ">" >>

\* a closed comment and a tag, an unclosed comment, a tag
HtmlComments ==
    << "<", "!", "-", "-", " ", "c", " ", "-", "-", ">", "<", "p", ">", NL, "<", "!", "-",
       "-", " ", "d", NL, "<", "b", ">" >>

\* <br /> "q" : a self-closing tag, then text with a quoted word
HtmlSelfClosing ==
    << "<", "b", "r", " ", "/", ">", " ", "\"", "q", "\"" >>

\* a doctype and a self-closing tag
HtmlDoctype ==
    << "<", "!", "D", "O", "C", "T", "Y", "P", "E", " ", "h", "t", "m", "l", ">", NL, "<",
       "b", "r", "/", ">" >>

PythonAlphabet == { "i", "f", "1", ".", "(", "'", "#", ":", " ", NL }

JavaScriptAlphabet == { Backtick, "$", "{", "}", "a", "(", ";", "\"", "/", NL }

HTMLAlphabet == { "<", ">", "!", "-", "a", " ", "=", "\"", "/", NL }

CSSAlphabet == { "a", "{", "}", ":", ";", "#", "1", ".", " ", NL }

\* Every sequence over alphabet of length at most n
TextsUpTo(alphabet, n) == UNION { [1..k -> alphabet] : k \in 0..n }

Inputs(language) ==
    CASE language = "python" ->
             {PythonScenario, PythonDefInside, PythonLiterals, QuotedAfterOperator,
              PythonTripleQuoted}
                 \cup TextsUpTo(PythonAlphabet, MaxLen)
      [] language = "javascript" ->
             {TemplateScenario, ArrowScenario, TemplateLines, TemplateCall,
              QuotedAfterOperator, NestedInterpolation}
                 \cup TextsUpTo(JavaScriptAlphabet, MaxLen)
      [] language = "html" ->
             {HtmlElement, HtmlComments, HtmlDoctype, HtmlSelfClosing}
                 \cup TextsUpTo(HTMLAlphabet, MaxLen)
      [] language = "css" ->
             {CssScenario, CssRules, CssCommentLines} \cup TextsUpTo(CSSAlphabet, MaxLen)

\* The texts loaded into the editor: a scenario of each language (the editor
\* may show any of them under any language) and every short text over
\* EditorAlphabet
EditorAlphabet == { "f", "(" }

EditorTexts ==
    { PythonScenario, PythonDefInside, CssScenario, TemplateScenario, ArrowScenario,
      TemplateLines, HtmlElement } \cup TextsUpTo(EditorAlphabet, MaxDocLen)

\* The texts that set_content loads before they are edited key by key
EditTexts == TextsUpTo(EditorAlphabet, MaxEditLen + 1)

\* The identifiers passed to set_language: those of the registry and one
\* outside it
LanguageIds == Languages \cup {"ruby"}

\* ------------------------------------------------------------------------
\* State
\* ------------------------------------------------------------------------

VARIABLES
    language,            \* which tokenizer of the registry is running
    text,                \* the argument of tokenize
    pc,                  \* "idle": no call is running; "scan": inside tokenize
    calls,               \* the tokenize calls made on this tokenizer so far
    returned,            \* the token lists they returned, in order
    steps,               \* the while-loop iterations the running call has made
    line_num,            \* the locals of tokenize
    line_pos,
    tokens,
    in_template_string,
    in_interpolation,
    in_tag,
    in_string,
    in_comment,
    doc,                 \* the characters of the text widget, its final newline included
    tagged,              \* for each character of doc, the tags it carries
    current_language,    \* SyntaxEditor.current_language
    before,              \* tagged as it was when highlight_text was last entered
    last_call,           \* the editor method that ran last
    edit_modified,       \* the modified flag of the text widget
    pending,             \* the <<Modified>> events queued and not yet handled
    modified,            \* SyntaxEditor._modified, what is_modified() returns
    passes,              \* the highlight_text calls made by the method that ran last
    language_var,        \* what the language dropdown of the application shows
    current_file         \* the extension of SyntaxHighlightingApp.current_file, or "none"

tokenizer_vars ==
    << language, text, pc, calls, returned, steps, line_num, line_pos, tokens,
       in_template_string, in_interpolation, in_tag, in_string, in_comment >>

editor_vars ==
    << doc, tagged, current_language, before, last_call, edit_modified, pending,
       modified, passes, language_var, current_file >>

vars == << tokenizer_vars, editor_vars >>

\* The locals of the running call, as the record the iterations work on
Scanner ==
    [ line_num |-> line_num, line_pos |-> line_pos, tokens |-> tokens,
      in_template_string |-> in_template_string,
      in_interpolation |-> in_interpolation,
      in_tag |-> in_tag, in_string |-> in_string, in_comment |-> in_comment ]

SetScanner(s) ==
    /\ line_num' = s.line_num
    /\ line_pos' = s.line_pos
    /\ tokens' = s.tokens
    /\ in_template_string' = s.in_template_string
    /\ in_interpolation' = s.in_interpolation
    /\ in_tag' = s.in_tag
    /\ in_string' = s.in_string
    /\ in_comment' = s.in_comment

\* lines = text.split('\n')
lines == Split(text)

\* The line the for loop is at
line == lines[line_num]

\* EnterTokenize with the mode flags kept from the earlier call, as if they
\* were fields of the tokenizer
EnterKeepingMode(s) ==
    [ InitialScanner EXCEPT
        !.in_template_string = s.in_template_string,
        !.in_interpolation = s.in_interpolation,
        !.in_tag = s.in_tag ]

\* What tokenize assigns on entry, whatever the locals of an earlier call
\* were: tokens = [], the mode flags False, and the first line at column 0
EnterTokenize(s) == InitialScanner

\* No tokenize call has been made
TokenizerIdle ==
    /\ pc = "idle"
    /\ calls = 0
    /\ returned = <<>>
    /\ steps = 0
    /\ line_num = InitialScanner.line_num
    /\ line_pos = InitialScanner.line_pos
    /\ tokens = InitialScanner.tokens
    /\ in_template_string = InitialScanner.in_template_string
    /\ in_interpolation = InitialScanner.in_interpolation
    /\ in_tag = InitialScanner.in_tag
    /\ in_string = InitialScanner.in_string
    /\ in_comment = InitialScanner.in_comment

\* SyntaxEditor.__init__: set_content("") and set_language("python") on the
\* empty widget
EditorConstructed ==
    /\ doc = <<NL>>
    /\ tagged = <<{}>>
    /\ current_language = "python"
    /\ before = <<{}>>
    /\ last_call = "__init__"
    /\ edit_modified = FALSE
    /\ pending = 0
    /\ modified = FALSE
    /\ passes = 2
    /\ language_var = "python"
    /\ current_file = "none"

\* A tokenizer and the text it is about to be given
Init ==
    /\ language \in Languages
    /\ text \in Inputs(language)
    /\ TokenizerIdle
    /\ EditorConstructed

\* tokenizer.tokenize(text) is called
CallTokenize ==
    /\ pc = "idle"
    /\ calls < MaxCalls
    /\ pc' = "scan"
    /\ calls' = calls + 1
    /\ steps' = 0
    /\ SetScanner(EnterTokenize(Scanner))
    /\ UNCHANGED <<language, text, returned, editor_vars>>

\* One iteration of the while loop of the current line
Scanning == pc = "scan" /\ line_pos < Len(line)

PythonIterate ==
    /\ Scanning
    /\ language = "python"
    /\ SetScanner(PlainIteration(PythonPatterns, line, Scanner))
    /\ steps' = steps + 1
    /\ UNCHANGED <<language, text, pc, calls, returned, editor_vars>>

CSSIterate ==
    /\ Scanning
    /\ language = "css"
    /\ SetScanner(PlainIteration(CSSPatterns, line, Scanner))
    /\ steps' = steps + 1
    /\ UNCHANGED <<language, text, pc, calls, returned, editor_vars>>

JavaScriptTemplate ==
    /\ Scanning
    /\ language = "javascript"
    /\ in_template_string /\ ~in_interpolation
    /\ SetScanner(TemplateIteration(line, Scanner))
    /\ steps' = steps + 1
    /\ UNCHANGED <<language, text, pc, calls, returned, editor_vars>>

JavaScriptInterpolation ==
    /\ Scanning
    /\ language = "javascript"
    /\ in_template_string /\ in_interpolation
    /\ SetScanner(InterpolationIteration(line, Scanner))
    /\ steps' = steps + 1
    /\ UNCHANGED <<language, text, pc, calls, returned, editor_vars>>

JavaScriptNormal ==
    /\ Scanning
    /\ language = "javascript"
    /\ ~in_template_string
    /\ SetScanner(NormalIteration(line, Scanner))
    /\ steps' = steps + 1
    /\ UNCHANGED <<language, text, pc, calls, returned, editor_vars>>

HTMLIterate ==
    /\ Scanning
    /\ language = "html"
    /\ SetScanner(HTMLIteration(line, Scanner))
    /\ steps' = steps + 1
    /\ UNCHANGED <<language, text, pc, calls, returned, editor_vars>>

\* The while loop of a line ends and the for loop takes the next line
AdvanceLine ==
    /\ pc = "scan"
    /\ line_pos >= Len(line)
    /\ line_num < Len(lines)
    /\ SetScanner(NextLine(Scanner))
    /\ UNCHANGED <<language, text, pc, calls, returned, steps, editor_vars>>

\* return tokens
Return ==
    /\ pc = "scan"
    /\ line_pos >= Len(line)
    /\ line_num = Len(lines)
    /\ pc' = "idle"
    /\ returned' = Append(returned, tokens)
    /\ UNCHANGED <<language, text, calls, steps, line_num, line_pos, tokens,
                   in_template_string, in_interpolation, in_tag, in_string, in_comment,
                   editor_vars>>

Next ==
    \/ CallTokenize
    \/ PythonIterate
    \/ CSSIterate
    \/ JavaScriptTemplate
    \/ JavaScriptInterpolation
    \/ JavaScriptNormal
    \/ HTMLIterate
    \/ AdvanceLine
    \/ Return

Spec == Init /\ [][Next]_vars

\* ------------------------------------------------------------------------
\* The editor: SyntaxEditor drives SyntaxHighlighter on its text widget
\* ------------------------------------------------------------------------

Widget == [doc |-> doc, tagged |-> tagged]

\* The widget after clear() and text.insert(tk.END, content)
Loaded(content) == InsertAtEnd(DeleteAll(Widget), content)

\* The widget sets its modified flag when its text changes, and queues a
\* <<Modified>> event whenever the flag changes
Flagged(flag) ==
    /\ edit_modified' = flag
    /\ pending' = IF flag # edit_modified THEN pending + 1 ELSE pending

\* A change of the text can be made: there is room in the queue for the
\* event it may raise
CanChange == edit_modified \/ pending < MaxPending

\* SyntaxEditor.set_content(content), for a content of the set contents
SetContentOf(contents) ==
    \E content \in contents :
        /\ CanChange
        /\ doc' = Loaded(content).doc
        /\ before' = Loaded(content).tagged
        /\ tagged' = HighlightText(current_language, Loaded(content).doc,
                                   Loaded(content).tagged)
        /\ last_call' = "set_content"
        /\ Flagged(edit_modified \/ Len(doc) > 1 \/ content # <<>>)
        /\ modified' = FALSE
        /\ passes' = 1
        /\ UNCHANGED <<current_language, language_var, current_file, tokenizer_vars>>

SetContent == SetContentOf(EditorTexts)

\* set_content of a text short enough to be edited key by key afterwards
SetShortContent == SetContentOf(EditTexts)

\* SyntaxEditor.set_language(language)
SetLanguage ==
    \E id \in LanguageIds :
        /\ current_language' = id
        /\ before' = tagged
        /\ tagged' = HighlightText(id, doc, tagged)
        /\ last_call' = "set_language"
        /\ passes' = 1
        /\ UNCHANGED <<doc, edit_modified, pending, modified, language_var, current_file,
                       tokenizer_vars>>

\* SyntaxEditor.select_all: text.tag_add(tk.SEL, "1.0", tk.END)
SelectAll ==
    /\ tagged' = TagAdd(tagged, "sel", TkIndex(doc, <<1, 0>>), Len(doc) + 1)
    /\ last_call' = "select_all"
    /\ passes' = 0
    /\ UNCHANGED <<doc, current_language, before, edit_modified, pending, modified,
                   language_var, current_file, tokenizer_vars>>

\* SyntaxEditor.clear, as new_file calls it
Clear ==
    /\ CanChange
    /\ doc' = DeleteAll(Widget).doc
    /\ tagged' = DeleteAll(Widget).tagged
    /\ last_call' = "clear"
    /\ Flagged(edit_modified \/ Len(doc) > 1)
    /\ modified' = FALSE
    /\ passes' = 0
    /\ UNCHANGED <<current_language, before, language_var, current_file, tokenizer_vars>>

\* A key press or a paste puts a character into the text
InsertKey ==
    \E k \in 1..Len(doc), ch \in EditorAlphabet :
        /\ CanChange
        /\ Len(doc) - 1 <= MaxEditLen
        /\ doc' = InsertChar(Widget, k, ch).doc
        /\ tagged' = InsertChar(Widget, k, ch).tagged
        /\ last_call' = "insert"
        /\ Flagged(TRUE)
        /\ passes' = 0
        /\ UNCHANGED <<current_language, before, modified, language_var, current_file,
                       tokenizer_vars>>

\* A key press or a cut takes a character out of the text
DeleteKey ==
    \E k \in 1..(Len(doc) - 1) :
        /\ CanChange
        /\ Len(doc) - 1 <= MaxEditLen + 1
        /\ doc' = DeleteChar(Widget, k).doc
        /\ tagged' = DeleteChar(Widget, k).tagged
        /\ last_call' = "delete"
        /\ Flagged(TRUE)
        /\ passes' = 0
        /\ UNCHANGED <<current_language, before, modified, language_var, current_file,
                       tokenizer_vars>>

\* SyntaxEditor._on_modified, bound to <<Modified>>, with the flag set
OnModified ==
    /\ pending > 0
    /\ edit_modified
    /\ before' = tagged
    /\ tagged' = ModifiedHandled(current_language, Widget).tagged
    /\ edit_modified' = ModifiedHandled(current_language, Widget).edit_modified
    /\ pending' = IF ModifiedHandled(current_language, Widget).edit_modified
                  THEN pending - 1 ELSE pending
    /\ last_call' = "_on_modified"
    /\ modified' = TRUE
    /\ passes' = ModifiedHandled(current_language, Widget).passes
    /\ UNCHANGED <<doc, current_language, language_var, current_file, tokenizer_vars>>

\* SyntaxEditor._on_modified with the flag clear: nothing is done
OnModifiedClear ==
    /\ pending > 0
    /\ ~edit_modified
    /\ pending' = pending - 1
    /\ tagged' = ModifiedSkipped(current_language, Widget).tagged
    /\ passes' = ModifiedSkipped(current_language, Widget).passes
    /\ before' = IF ModifiedSkipped(current_language, Widget).passes > 0
                 THEN tagged ELSE before
    /\ UNCHANGED <<doc, current_language, last_call, edit_modified, modified,
                   language_var, current_file, tokenizer_vars>>

\* ------------------------------------------------------------------------
\* The application: the language dropdown and the File menu of main.py
\* ------------------------------------------------------------------------

\* The languages picked in the dropdown, the extensions of the files picked
\* in the dialogs ("none": the dialog is cancelled), the answers to the
\* prompt for unsaved changes, and the contents of the files opened
AppLanguages == {"python", "javascript"}

Extensions == {".py", ".js", ".txt"}

Answers == {"yes", "no", "cancel"}

AppTexts == { <<>>, <<"f", "(">> }

\* The editor and the application as one record
App ==
    [ doc |-> doc, tagged |-> tagged, before |-> before, passes |-> passes,
      current_language |-> current_language, language_var |-> language_var,
      current_file |-> current_file, modified |-> modified,
      edit_modified |-> edit_modified, pending |-> pending ]

SetApp(a) ==
    /\ doc' = a.doc
    /\ tagged' = a.tagged
    /\ before' = a.before
    /\ passes' = a.passes
    /\ current_language' = a.current_language
    /\ language_var' = a.language_var
    /\ current_file' = a.current_file
    /\ modified' = a.modified
    /\ edit_modified' = a.edit_modified
    /\ pending' = a.pending

\* SyntaxHighlightingApp.set_language(language): editor.set_language
AppSetLanguage(a, id) ==
    [a EXCEPT !.current_language = id,
              !.before = a.tagged,
              !.tagged = HighlightText(id, a.doc, a.tagged),
              !.passes = 1]

\* The language that open_file and save_as_file take from an extension
LanguageOfExtension(ext) ==
    CASE ext = ".py"   -> "python"
      [] ext = ".js"   -> "javascript"
      [] ext = ".html" -> "html"
      [] ext = ".css"  -> "css"
      [] OTHER         -> "none"

\* The if/elif chain on the extension: set_language and language_var.set for
\* an extension it knows, nothing for another
FollowExtension(a, ext) ==
    IF LanguageOfExtension(ext) = "none" THEN a
    ELSE [AppSetLanguage(a, LanguageOfExtension(ext))
             EXCEPT !.language_var = LanguageOfExtension(ext)]

\* save_file with a current file: the content is written and
\* set_modified(False) called, or the write fails. ok is what it returns.
WriteFile(a, written) ==
    IF written THEN [app |-> [a EXCEPT !.modified = FALSE], ok |-> TRUE]
    ELSE [app |-> a, ok |-> FALSE]

\* save_as_file, for the extension picked in the dialog
SaveAsFileFrom(a, ext, written) ==
    IF ext = "none" THEN [app |-> a, ok |-> FALSE]
    ELSE WriteFile(FollowExtension([a EXCEPT !.current_file = ext], ext), written)

\* save_file
SaveFileFrom(a, ext, written) ==
    IF a.current_file # "none" THEN WriteFile(a, written)
    ELSE SaveAsFileFrom(a, ext, written)

\* "if self.editor.is_modified(): if not self.prompt_save_changes(): return":
\* ok tells whether the caller goes on
MayProceed(a, answer, ext, written) ==
    IF ~a.modified \/ answer = "no" THEN [app |-> a, ok |-> TRUE]
    ELSE IF answer = "cancel" THEN [app |-> a, ok |-> FALSE]
    ELSE SaveFileFrom(a, ext, written)

\* The flag of the widget and its queue after a change of the text, or after
\* none
AppFlagged(a, changed) ==
    [a EXCEPT !.edit_modified = a.edit_modified \/ changed,
              !.pending = IF changed /\ ~a.edit_modified THEN @ + 1 ELSE @]

\* editor.clear()
ClearedEditor(a) ==
    [AppFlagged(a, Len(a.doc) > 1)
        EXCEPT !.doc = DeleteAll(a).doc,
               !.tagged = DeleteAll(a).tagged,
               !.modified = FALSE,
               !.passes = 0]

\* editor.set_content(content)
LoadedEditor(a, content) ==
    [AppFlagged(a, Len(a.doc) > 1 \/ content # <<>>)
        EXCEPT !.doc = InsertAtEnd(DeleteAll(a), content).doc,
               !.before = InsertAtEnd(DeleteAll(a), content).tagged,
               !.tagged = HighlightText(a.current_language,
                                        InsertAtEnd(DeleteAll(a), content).doc,
                                        InsertAtEnd(DeleteAll(a), content).tagged),
               !.modified = FALSE,
               !.passes = 1]

\* new_file after the prompt: clear, no current file, and the dropdown set
\* to "python"
NewFileFrom(a) ==
    [ClearedEditor(a) EXCEPT !.current_file = "none", !.language_var = "python"]

\* open_file after the prompt: ext is "none" when the dialog is cancelled or
\* the file cannot be read
OpenFileFrom(a, ext, content) ==
    IF ext = "none" THEN a
    ELSE FollowExtension([LoadedEditor(a, content) EXCEPT !.current_file = ext], ext)

\* on_language_change: the dropdown has set language_var to the item picked
OnLanguageChange ==
    \E id \in AppLanguages :
        /\ SetApp(AppSetLanguage([App EXCEPT !.language_var = id], id))
        /\ last_call' = "on_language_change"
        /\ UNCHANGED tokenizer_vars

\* What the prompt for unsaved changes can lead to: every answer, every file
\* picked when the answer saves under a new name, the write done or failed
Prompted(a) ==
    { MayProceed(a, answer, ext, written) :
          answer \in Answers, ext \in Extensions \cup {"none"}, written \in BOOLEAN }

NewFile ==
    \E r \in Prompted(App) :
        /\ CanChange
        /\ SetApp(IF r.ok THEN NewFileFrom(r.app) ELSE r.app)
        /\ last_call' = "new_file"
        /\ UNCHANGED tokenizer_vars

OpenFile ==
    \E r \in Prompted(App), opened \in Extensions \cup {"none"}, content \in AppTexts :
        /\ CanChange
        /\ SetApp(IF r.ok THEN OpenFileFrom(r.app, opened, content) ELSE r.app)
        /\ last_call' = "open_file"
        /\ UNCHANGED tokenizer_vars

SaveFile ==
    \E r \in { SaveFileFrom(App, ext, written) :
                   ext \in Extensions \cup {"none"}, written \in BOOLEAN } :
        /\ SetApp(r.app)
        /\ last_call' = "save_file"
        /\ UNCHANGED tokenizer_vars

SaveAsFile ==
    \E r \in { SaveAsFileFrom(App, ext, written) :
                   ext \in Extensions \cup {"none"}, written \in BOOLEAN } :
        /\ SetApp(r.app)
        /\ last_call' = "save_as_file"
        /\ UNCHANGED tokenizer_vars

EditorInit ==
    /\ language = "python"
    /\ text = <<>>
    /\ TokenizerIdle
    /\ EditorConstructed

EditorNext ==
    \/ SetContent
    \/ SetLanguage
    \/ SelectAll

EditorSpec == EditorInit /\ [][EditorNext]_vars

\* The editor with the event loop running: the text is set, cleared and edited
\* key by key, the language is switched, and the queued <<Modified>> events
\* are handled
EventNext ==
    \/ SetShortContent
    \/ SetLanguage
    \/ Clear
    \/ InsertKey
    \/ DeleteKey
    \/ OnModified
    \/ OnModifiedClear

EventSpec == EditorInit /\ [][EventNext]_vars

\* The application: the user picks languages, uses New, Open, Save and Save
\* As, and types, and the queued <<Modified>> events are handled
AppNext ==
    \/ OnLanguageChange
    \/ NewFile
    \/ OpenFile
    \/ SaveFile
    \/ SaveAsFile
    \/ InsertKey
    \/ OnModified
    \/ OnModifiedClear

AppSpec == EditorInit /\ [][AppNext]_vars

\* ------------------------------------------------------------------------
\* Properties of the tokenizers
\* ------------------------------------------------------------------------

\* (line, column) a is at or before b
PosLE(a, b) == a[1] < b[1] \/ (a[1] = b[1] /\ a[2] <= b[2])

PosLT(a, b) == a[1] < b[1] \/ (a[1] = b[1] /\ a[2] < b[2])

Ordered(toks) ==
    \A i \in 1..(Len(toks) - 1) :
        /\ PosLT(toks[i].start, toks[i + 1].start)
        /\ PosLE(toks[i].end, toks[i + 1].start)

\* C1: the token list of a tokenize call, while it is built and when it is
\* returned, is strictly sorted by start position, and each token ends at or before
\* the start of the next one.
C1_OrderedNoOverlap ==
    /\ Ordered(tokens)
    /\ \A k \in DOMAIN returned : Ordered(returned[k])

\* A JavaScript call has returned six tokens or more, over two lines or more
C1_Witness ==
    /\ pc = "idle"
    /\ language = "javascript"
    /\ Len(returned) >= 1
    /\ Len(returned[1]) >= 6
    /\ returned[1][1].start[1] # returned[1][Len(returned[1])].start[1]

ModeCleared == ~in_template_string /\ ~in_interpolation /\ ~in_tag

\* C2: a tokenize call starts from cleared modes whatever the call before
\* left, and every call of the same tokenizer on the same text returns the
\* same token list.
C2_CallsIndependent ==
    /\ (pc = "scan" /\ line_num = 1 /\ line_pos = 0) => ModeCleared /\ tokens = <<>>
    /\ \A k \in DOMAIN returned : returned[k] = returned[1]

\* Two calls have returned tokens and each stopped inside a mode
C2_Witness ==
    /\ pc = "idle"
    /\ Len(returned) = 2
    /\ returned[2] # <<>>
    /\ ~ModeCleared

Cursor == <<line_num, line_pos>>

\* C3: while a tokenize call runs, the cursor stays within the lines of
\* the text, so that the call can always go on to its return; every step of
\* the call moves the cursor strictly forward; and the call makes at most one
\* iteration of its while loops for each character of the text.
C3_Terminates ==
    /\ [](pc = "scan" =>
            /\ line_num \in 1..Len(lines)
            /\ line_pos \in 0..(Len(line) + 1)
            /\ steps <= Len(text))
    /\ [][(pc = "scan" /\ pc' = "scan") => PosLT(Cursor, Cursor')]_vars

\* A call on template literals that run over lines has returned
C3_Witness ==
    /\ pc = "idle"
    /\ language = "javascript"
    /\ text = TemplateLines
    /\ Len(returned) >= 1
    /\ steps >= 5
    /\ line_num = Len(lines)

\* The columns of line n that token tok covers
Covered(tok, n) ==
    IF tok.start[1] = n THEN tok.start[2]..(tok.end[2] - 1) ELSE {}

WithinOneLine(toks) ==
    \A i \in DOMAIN toks :
        /\ toks[i].start[1] = toks[i].end[1]
        /\ toks[i].start[1] \in 1..Len(lines)
        /\ 0 <= toks[i].start[2]
        /\ toks[i].start[2] < toks[i].end[2]
        /\ toks[i].end[2] <= Len(lines[toks[i].start[1]])

CoveredOnce(toks) ==
    \A i, j \in DOMAIN toks :
        i # j => \A n \in 1..Len(lines) : Covered(toks[i], n) \cap Covered(toks[j], n) = {}

\* C4: every token lies within one line of the text, is not empty, and no
\* character of the text is covered by two tokens.
C4_TokensWithinLines ==
    /\ WithinOneLine(tokens) /\ CoveredOnce(tokens)
    /\ \A k \in DOMAIN returned : WithinOneLine(returned[k]) /\ CoveredOnce(returned[k])

\* An HTML call has returned tokens on two lines, a comment that runs to the
\* end of its line among them, and has left a character uncovered
C4_Witness ==
    /\ pc = "idle"
    /\ language = "html"
    /\ Len(returned) >= 1
    /\ \E i, j \in DOMAIN returned[1] :
          /\ returned[1][i].start[1] # returned[1][j].start[1]
          /\ returned[1][i].type = "comment"
          /\ returned[1][i].end[2] = Len(lines[returned[1][i].start[1]])
    /\ \E n \in 1..Len(lines) : \E c \in 0..(Len(lines[n]) - 1) :
          \A i \in DOMAIN returned[1] : c \notin Covered(returned[1][i], n)

Returned(language_id, content) ==
    /\ pc = "idle"
    /\ language = language_id
    /\ text = content
    /\ Len(returned) >= 1

Contains(toks, tok) == \E i \in DOMAIN toks : toks[i] = tok

\* C5: the Python tokenizer on "def foo():\n    return 1\n" returns exactly
\* keyword def, function "foo(", operator ":", keyword return and number 1,
\* and no token for ")".
C5_PythonScenario ==
    Returned("python", PythonScenario) =>
        \A k \in DOMAIN returned :
            returned[k] = << Token("keyword", 1, 0, 3),
                             Token("function", 1, 4, 8),
                             Token("operator", 1, 9, 10),
                             Token("keyword", 2, 4, 10),
                             Token("number", 2, 11, 12) >>

C5_Witness == Returned("python", PythonScenario)

\* C5 as the specification states it: the list holds an operator token for
\* ")" next to the others.
C5_AsStated ==
    Returned("python", PythonScenario) =>
        /\ Contains(returned[1], Token("keyword", 1, 0, 3))
        /\ Contains(returned[1], Token("function", 1, 4, 8))
        /\ Contains(returned[1], Token("operator", 1, 8, 9))
        /\ Contains(returned[1], Token("operator", 1, 9, 10))
        /\ Contains(returned[1], Token("keyword", 2, 4, 10))
        /\ Contains(returned[1], Token("number", 2, 11, 12))

\* C6: the CSS tokenizer on "body { color: #fff; }" returns tag "body {",
\* property "color:", number "#fff" and operator tokens for ";" and "}".
C6_CssScenario ==
    Returned("css", CssScenario) =>
        /\ Contains(returned[1], Token("tag", 1, 0, 6))
        /\ Contains(returned[1], Token("property", 1, 7, 13))
        /\ Contains(returned[1], Token("number", 1, 14, 18))
        /\ Contains(returned[1], Token("operator", 1, 18, 19))
        /\ Contains(returned[1], Token("operator", 1, 20, 21))

\* C7: the JavaScript tokenizer on the template literal `hello ${x}`;
\* returns string for the opening backtick, string "hello ", operator "${",
\* operator "}", string for the closing backtick and operator ";", and ends
\* outside the template string and the interpolation.
C7_TemplateScenario ==
    Returned("javascript", TemplateScenario) =>
        /\ \A k \in DOMAIN returned :
              returned[k] = << Token("string", 1, 0, 1),
                               Token("string", 1, 1, 7),
                               Token("operator", 1, 7, 9),
                               Token("operator", 1, 10, 11),
                               Token("string", 1, 11, 12),
                               Token("operator", 1, 12, 13) >>
        /\ ~in_template_string
        /\ ~in_interpolation

C7_Witness == Returned("javascript", TemplateScenario) /\ Len(returned) = 2

\* ------------------------------------------------------------------------
\* Properties of the highlighter
\* ------------------------------------------------------------------------

\* The last call on the editor ended with highlight_text
Highlighted == last_call \in {"set_content", "set_language", "_on_modified"}

\* The characters that carry the selection marker
SelExtent(tg) == { i \in DOMAIN tg : "sel" \in tg[i] }

StyleOf(tg, i) == tg[i] \cap StyleTags

\* C8: after a highlight with a language identifier outside the registry no
\* character carries a style tag, whatever tags an earlier highlight left,
\* and the selection marker is where it was.
C8_UnknownLanguage ==
    (Highlighted /\ current_language \notin Languages) =>
        /\ DOMAIN tagged = DOMAIN doc
        /\ \A i \in DOMAIN tagged : StyleOf(tagged, i) = {}
        /\ SelExtent(tagged) = SelExtent(before)

\* set_language("ruby") on a document that carried style tags and a selection
C8_Witness ==
    /\ last_call = "set_language"
    /\ current_language = "ruby"
    /\ \E i \in DOMAIN before : StyleOf(before, i) # {}
    /\ SelExtent(tagged) # {}

\* A widget of the same text that carries no tag
Untagged(d) == [i \in DOMAIN d |-> {}]

\* C9: what a highlight leaves is the selection marker where it was before
\* the call, and the style tags the same call puts on a document that had
\* no tag: no style tag of an earlier highlight is left.
C9_ClearsAllButSel ==
    Highlighted =>
        \A fresh \in { HighlightText(current_language, doc, Untagged(doc)) } :
            tagged = [i \in DOMAIN doc |-> fresh[i] \cup (before[i] \cap {"sel"})]

\* A highlight with a registered language has taken a style tag of an earlier
\* highlight off a character, on a document with a selection
C9_Witness ==
    /\ Highlighted
    /\ current_language \in Languages
    /\ SelExtent(before) # {}
    /\ \E i \in DOMAIN before : StyleOf(before, i) \ StyleOf(tagged, i) # {}
    /\ \E i \in DOMAIN tagged : StyleOf(tagged, i) # {}

\* The line and the column of the character at offset i of the widget
LineOf(d, i) == 1 + Cardinality({ j \in 1..(i - 1) : d[j] = NL })

ColOf(d, i) == Cardinality({ j \in 1..(i - 1) : \A k \in j..(i - 1) : d[k] # NL })

\* Token tok covers column c of line n
Covers(tok, n, c) == tok.start[1] = n /\ tok.start[2] <= c /\ c < tok.end[2]

\* Column c of line n is the last "(" of the text of token tok
LastParen(d, tok, n, c) ==
    /\ Covers(tok, n, c)
    /\ WidgetLines(d)[n][c + 1] = "("
    /\ \A c2 \in (c + 1)..(tok.end[2] - 1) : WidgetLines(d)[n][c2 + 1] # "("

\* The style tags the token list toks gives the character at (n, c)
LayoutAt(d, toks, n, c) ==
    { toks[k].type : k \in { k \in DOMAIN toks : Covers(toks[k], n, c) } }
        \cup { "operator" : k \in { k \in DOMAIN toks :
                                      /\ toks[k].type = "function"
                                      /\ LastParen(d, toks[k], n, c) } }

\* C10: after a highlight with a registered language each character carries
\* the tag of the type of the token that covers it, the operator tag as well
\* when it is the last "(" of a function token, and no other style tag.
C10_TagLayout ==
    (Highlighted /\ current_language \in Languages) =>
        \A toks \in { Tokenize(current_language, doc) } :
            \A i \in DOMAIN doc :
                StyleOf(tagged, i) = LayoutAt(doc, toks, LineOf(doc, i), ColOf(doc, i))

\* The JavaScript text f((a)=>1 is highlighted: its function token holds two
\* "(", the first carries the function tag alone and the second the function
\* and the operator tag
C10_Witness ==
    /\ Highlighted
    /\ current_language = "javascript"
    /\ doc = ArrowScenario \o <<NL>>
    /\ StyleOf(tagged, 2) = {"function"}
    /\ StyleOf(tagged, 3) = {"function", "operator"}

\* C11: a highlight that follows a highlight, with the same language and the
\* document text unchanged, leaves the tag layout of the first one as it is.
C11_Idempotent ==
    [][(/\ Highlighted
        /\ last_call' = "set_language"
        /\ current_language' = current_language
        /\ doc' = doc) => tagged' = tagged]_vars

\* A highlight with a registered language that changed nothing, on a document
\* that carries style tags and a selection
C11_Witness ==
    /\ last_call = "set_language"
    /\ current_language \in Languages
    /\ before = tagged
    /\ SelExtent(tagged) # {}
    /\ \E i \in DOMAIN tagged : StyleOf(tagged, i) # {}

\* The style tags of every character
StyleLayout(tg) == [i \in DOMAIN tg |-> tg[i] \cap StyleTags]

\* The style tags are those a highlight of the text as it is now, under the
\* language as it is now, gives
LayoutCurrent ==
    StyleLayout(tagged) =
        StyleLayout(HighlightText(current_language, doc, Untagged(doc)))

\* C12: when set_content, set_language or the handler of a modification has
\* just run, and whenever no <<Modified>> event waits to be handled, the
\* style tags are those of a highlight of the current text under the current
\* language.
C12_LayoutFollowsText ==
    /\ last_call \in {"set_content", "set_language", "_on_modified"} => LayoutCurrent
    /\ pending = 0 => LayoutCurrent

\* Every modification of an edited text has been handled, and the text
\* carries style tags that a handler put there after a character was taken
\* out or put in
C12_Witness ==
    /\ last_call = "_on_modified"
    /\ pending = 0
    /\ ~edit_modified
    /\ before # tagged
    /\ \E i \in DOMAIN tagged : StyleOf(tagged, i) # {}

\* ------------------------------------------------------------------------
\* Properties of the scan of the rule tables and of the modes
\* ------------------------------------------------------------------------

\* The rule table of a tokenizer whose every iteration is a scan of its table
PlainPatterns == IF language = "python" THEN PythonPatterns ELSE CSSPatterns

\* Some rule of the table matches at column c of line n
MatchesAt(patterns, n, c) ==
    FirstMatch(patterns, lines[n], c, Len(lines[n])) # 0

StartsAt(toks, n, c) == \E i \in DOMAIN toks : toks[i].start = <<n, c>>

\* C13: in the list the Python or the CSS tokenizer returns, the column where
\* a token ends is the next one tried against the rule table: when a rule
\* matches there, a token starts there.
C13_NextTriedAfterToken ==
    (pc = "idle" /\ language \in {"python", "css"} /\ Len(returned) >= 1) =>
        \A i \in DOMAIN returned[1] :
            MatchesAt(PlainPatterns, returned[1][i].end[1], returned[1][i].end[2])
                => StartsAt(returned[1], returned[1][i].end[1], returned[1][i].end[2])

\* The rule table a tokenizer scans outside its modes
TableOf(language_id) ==
    CASE language_id = "python"     -> PythonPatterns
      [] language_id = "css"        -> CSSPatterns
      [] language_id = "javascript" -> JavaScriptPatterns
      [] language_id = "html"       -> HTMLPatterns

\* Rule i of the table matches at column c of ln and no rule before it does
IsEarliest(patterns, ln, c, i) ==
    /\ RuleEnd(patterns[i].rule, ln, c, Len(ln)) # NoMatch
    /\ \A j \in 1..(i - 1) : RuleEnd(patterns[j].rule, ln, c, Len(ln)) = NoMatch

\* An iteration of Python, of CSS or of JavaScript in normal mode, off a
\* backtick, that appends a token
TablePass ==
    /\ pc = "scan"
    /\ steps' = steps + 1
    /\ Len(tokens') = Len(tokens) + 1
    /\ \/ language \in {"python", "css"}
       \/ language = "javascript" /\ ~in_template_string /\ line[line_pos + 1] # Backtick

\* C14: the token that a scan of the rule table appends at the cursor has the
\* type and the span of the match of the earliest rule of the table that
\* matches there.
C14_FirstMatchWins ==
    [][TablePass =>
        \E i \in DOMAIN TableOf(language) :
            /\ IsEarliest(TableOf(language), line, line_pos, i)
            /\ tokens'[Len(tokens')] =
                   Token(TableOf(language)[i].type, line_num, line_pos,
                         RuleEnd(TableOf(language)[i].rule, line, line_pos, Len(line)))]_vars

\* The Python tokenizer has returned the keyword token of def at a column
\* where the def rule, later in the table, matches a longer span
C14_Witness ==
    /\ Returned("python", PythonScenario)
    /\ Contains(returned[1], Token("keyword", 1, 0, 3))
    /\ RuleEnd("def_name", lines[1], 0, Len(lines[1])) > 3


\* The opener of a line comment in a language
CommentOpener(language_id) == IF language_id = "python" THEN <<"#">> ELSE <<"/", "/">>

\* The quoted literals and the line comment of ln, read from left to right
\* from column p: a quote inside a literal or a comment opens nothing, a
\* comment runs to the end of the line. Each is a pair <<first column, column
\* after the last>>.
RECURSIVE Shielded(_, _, _)
Shielded(language_id, ln, p) ==
    IF p >= Len(ln) THEN {}
    ELSE IF LitAt(ln, p, Len(ln), CommentOpener(language_id)) THEN { <<p, Len(ln)>> }
    ELSE IF language_id = "python" /\ TripleQuoted(ln, p, Len(ln)) # NoMatch
         THEN Shielded(language_id, ln, TripleQuoted(ln, p, Len(ln)))
    ELSE IF language_id = "javascript"
              /\ Delimited(ln, p, Len(ln), <<"/", "*">>, <<"*", "/">>) # NoMatch
         THEN Shielded(language_id, ln,
                       Delimited(ln, p, Len(ln), <<"/", "*">>, <<"*", "/">>))
    ELSE IF QuotedString(ln, p, Len(ln)) # NoMatch
         THEN { <<p, QuotedString(ln, p, Len(ln))>> }
                  \cup Shielded(language_id, ln, QuotedString(ln, p, Len(ln)))
    ELSE Shielded(language_id, ln, p + 1)

\* The text holds no backtick: the JavaScript scan never leaves normal mode
NormalOnly == \A i \in DOMAIN text : text[i] # Backtick

\* C15: the Python tokenizer, and the JavaScript tokenizer in normal mode,
\* return no keyword token whose span lies inside a complete quoted literal
\* of its line or after the opener of a line comment of its line, whatever
\* precedes the literal or the comment.
C15_NoKeywordInLiteral ==
    (pc = "idle" /\ language \in {"python", "javascript"} /\ NormalOnly
         /\ Len(returned) >= 1) =>
        \A i \in DOMAIN returned[1] :
            returned[1][i].type = "keyword" =>
                \A span \in Shielded(language, lines[returned[1][i].start[1]], 0) :
                    ~(/\ span[1] <= returned[1][i].start[2]
                      /\ returned[1][i].end[2] <= span[2])


\* An iteration of the JavaScript scan that starts in normal mode
NormalPass ==
    /\ pc = "scan"
    /\ language = "javascript"
    /\ ~in_template_string
    /\ steps' = steps + 1

\* The tokens that the step appends
Appended == { tokens'[i] : i \in (Len(tokens) + 1)..Len(tokens') }

\* Column c lies after the first column of a token that the step appends
InsideAppended(c) == \E tok \in Appended : tok.start[2] < c /\ c < tok.end[2]

\* C16: every backtick that an iteration of the JavaScript scan passes in
\* normal mode, and that is not inside the token of a rule-table match, is
\* appended as a string token of one character, and the mode becomes
\* InTemplateString.
C16_BacktickOpensTemplate ==
    [][NormalPass =>
        \A c \in line_pos..(line_pos' - 1) :
            (c < Len(line) /\ line[c + 1] = Backtick /\ ~InsideAppended(c)) =>
                /\ Token("string", line_num, c, c + 1) \in Appended
                /\ in_template_string']_vars


\* An iteration of the JavaScript scan that starts in InTemplateString mode
TemplatePass ==
    /\ pc = "scan"
    /\ language = "javascript"
    /\ in_template_string /\ ~in_interpolation
    /\ steps' = steps + 1

\* The columns of ln, from column c on, where lit is written
Occurrences(ln, c, lit) ==
    { k \in c..(Len(ln) - Len(lit)) : SubSeq(ln, k + 1, k + Len(lit)) = lit }

\* Column k is the first one of a set of columns
IsFirst(k, cols) == k \in cols /\ \A m \in cols : k <= m

\* The string token of the template text from column c to column k, when
\* there is any
Content(n, c, k) == IF c < k THEN <<Token("string", n, c, k)>> ELSE <<>>

\* The tokens that the step appends, in their order
AppendedSeq == SubSeq(tokens', Len(tokens) + 1, Len(tokens'))

\* C17: an iteration in InTemplateString mode at column c. When a backtick
\* comes first from c on, it appends the text before it as one string token
\* if there is any, then the backtick as a string token, and the mode is
\* Normal. When "${" comes first, it appends the text before it likewise,
\* then "${" as an operator token of two characters, and the mode is
\* InInterpolation. When the line has neither, it appends the rest of the
\* line as one string token, and the mode is InTemplateString still when the
\* next line starts.
C17_TemplateMode ==
    [][/\ TemplatePass =>
            \A backticks \in { Occurrences(line, line_pos, <<Backtick>>) } :
            \A interps \in { Occurrences(line, line_pos, <<"$", "{">>) } :
                /\ \A b \in backticks :
                      (IsFirst(b, backticks) /\ \A d \in interps : b < d) =>
                          /\ AppendedSeq = Content(line_num, line_pos, b)
                                               \o <<Token("string", line_num, b, b + 1)>>
                          /\ ~in_template_string' /\ ~in_interpolation'
                /\ \A d \in interps :
                      (IsFirst(d, interps) /\ \A b \in backticks : d < b) =>
                          /\ AppendedSeq = Content(line_num, line_pos, d)
                                               \o <<Token("operator", line_num, d, d + 2)>>
                          /\ in_template_string' /\ in_interpolation'
                /\ (backticks = {} /\ interps = {}) =>
                      /\ AppendedSeq = <<Token("string", line_num, line_pos, Len(line))>>
                      /\ line_pos' = Len(line)
                      /\ in_template_string' /\ ~in_interpolation'
       /\ (/\ pc = "scan" /\ language = "javascript"
           /\ in_template_string /\ ~in_interpolation
           /\ pc' = "scan" /\ line_num' # line_num) =>
               in_template_string' /\ ~in_interpolation']_vars

\* The JavaScript tokenizer has returned, for a template string of three
\* lines: the rest of line 1 as a string token, "${" at the start of line 2
\* as an operator token, and on line 3 the text c and the closing backtick
\* as string tokens
C17_Witness ==
    /\ Returned("javascript", TemplateLines)
    /\ Contains(returned[1], Token("string", 1, 1, 2))
    /\ Contains(returned[1], Token("operator", 2, 0, 2))
    /\ Contains(returned[1], Token("string", 3, 1, 2))
    /\ Contains(returned[1], Token("string", 3, 2, 3))


\* An iteration of the JavaScript scan that starts in InInterpolation mode
InterpolationPass ==
    /\ pc = "scan"
    /\ language = "javascript"
    /\ in_template_string /\ in_interpolation
    /\ steps' = steps + 1

\* The column of the first "}" of ln, from column p on, that closes no "{"
\* opened from the start of the count (depth of them open at p), or -1
RECURSIVE UnmatchedClose(_, _, _)
UnmatchedClose(ln, p, depth) ==
    IF p >= Len(ln) THEN -1
    ELSE IF ln[p + 1] = "{" THEN UnmatchedClose(ln, p + 1, depth + 1)
    ELSE IF ln[p + 1] = "}"
         THEN IF depth = 0 THEN p ELSE UnmatchedClose(ln, p + 1, depth - 1)
    ELSE UnmatchedClose(ln, p + 1, depth)

\* The cursor stands right after the "${" that opened the interpolation
AfterInterpOpen ==
    line_pos >= 2 /\ SubSeq(line, line_pos - 1, line_pos) = <<"$", "{">>

\* C18: an iteration in InInterpolation mode that starts right after "${"
\* ends at the first "}" of the line that pairs with no "{" opened inside the
\* interpolation: that "}" is the last token appended, an operator token of
\* one character, no other token appended reaches it, and the mode is
\* InTemplateString. On a line without "}" the iteration runs to the end of
\* the line, and the mode is InInterpolation still when the next line starts.
C18_InterpolationEnds ==
    [][/\ (InterpolationPass /\ AfterInterpOpen) =>
            \A k \in { UnmatchedClose(line, line_pos, 0) } :
                k # -1 =>
                    /\ AppendedSeq # <<>>
                    /\ AppendedSeq[Len(AppendedSeq)] = Token("operator", line_num, k, k + 1)
                    /\ \A i \in 1..(Len(AppendedSeq) - 1) : AppendedSeq[i].end[2] <= k
                    /\ line_pos' = k + 1
                    /\ in_template_string' /\ ~in_interpolation'
       /\ (InterpolationPass /\ Occurrences(line, line_pos, <<"}">>) = {}) =>
               /\ line_pos' = Len(line)
               /\ in_template_string' /\ in_interpolation'
       /\ (/\ pc = "scan" /\ language = "javascript"
           /\ in_template_string /\ in_interpolation
           /\ pc' = "scan" /\ line_num' # line_num) =>
               in_template_string' /\ in_interpolation']_vars


\* The mode of the JavaScript scan
Mode ==
    IF in_template_string
    THEN IF in_interpolation THEN "InInterpolation" ELSE "InTemplateString"
    ELSE IF in_interpolation THEN "none" ELSE "Normal"

\* The last token that the step appends has the given type and spans the
\* characters lit of the current line
LastAppendedIs(type, lit) ==
    /\ AppendedSeq # <<>>
    /\ AppendedSeq[Len(AppendedSeq)].type = type
    /\ AppendedSeq[Len(AppendedSeq)].start[1] = line_num
    /\ SubSeq(line, AppendedSeq[Len(AppendedSeq)].start[2] + 1,
              AppendedSeq[Len(AppendedSeq)].end[2]) = lit

\* C19: during a JavaScript tokenize call the scan is in one of Normal,
\* InTemplateString and InInterpolation (in_interpolation is never true while
\* in_template_string is false). The mode changes only from Normal to
\* InTemplateString and back on a backtick, from InTemplateString to
\* InInterpolation on "${", and from InInterpolation to InTemplateString on
\* "}"; the step from a line to the next, empty lines included, never
\* changes it.
C19_ModeTransitions ==
    /\ []((pc = "scan" /\ language = "javascript") => Mode # "none")
    /\ [][(pc = "scan" /\ pc' = "scan" /\ language = "javascript" /\ Mode' # Mode) =>
            /\ line_num' = line_num
            /\ \/ /\ Mode = "Normal" /\ Mode' = "InTemplateString"
                  /\ LastAppendedIs("string", <<Backtick>>)
               \/ /\ Mode = "InTemplateString" /\ Mode' = "Normal"
                  /\ LastAppendedIs("string", <<Backtick>>)
               \/ /\ Mode = "InTemplateString" /\ Mode' = "InInterpolation"
                  /\ LastAppendedIs("operator", <<"$", "{">>)
               \/ /\ Mode = "InInterpolation" /\ Mode' = "InTemplateString"
                  /\ LastAppendedIs("operator", <<"}">>)]_vars

\* The scan of a template string of three lines stands on line 3 after the
\* "}" that ends the interpolation, back in InTemplateString: the template
\* string was entered on line 1 and the interpolation on line 2, and each
\* mode was carried over a line end
C19_Witness ==
    /\ pc = "scan"
    /\ language = "javascript"
    /\ text = TemplateLines
    /\ line_num = 3 /\ line_pos = 1
    /\ Mode = "InTemplateString"


\* An iteration of the HTML scan
HtmlPass ==
    /\ pc = "scan"
    /\ language = "html"
    /\ steps' = steps + 1

\* Column c of the current line starts a tag <name or </name
OpensTag(c) ==
    /\ CharAt(line, c, Len(line)) = "<"
    /\ \/ CharAt(line, c + 1, Len(line)) \in Alpha
       \/ /\ CharAt(line, c + 1, Len(line)) = "/"
          /\ CharAt(line, c + 2, Len(line)) \in Alpha

\* The columns that the step passes
Passed == line_pos..(line_pos' - 1)

\* Column c is inside a quoted value, a comment or a doctype that the step
\* appends
InsideValue(c) ==
    \E tok \in Appended :
        /\ tok.start[2] <= c /\ c < tok.end[2]
        /\ \/ tok.type \in {"string", "comment"}
           \/ /\ CharAt(line, tok.start[2], Len(line)) = "<"
              /\ CharAt(line, tok.start[2] + 1, Len(line)) = "!"

\* Column c is the ">" that ends a tag
EndsTag(c) ==
    /\ c \in Passed
    /\ CharAt(line, c, Len(line)) = ">"
    /\ ~InsideValue(c)

\* C20: in the HTML scan InTag is true once the "<" of a tag <name ...> or
\* </name> is passed, and once the ">" that ends the tag is passed InTag is
\* false and that ">" is covered by a tag token; the step from a line to the
\* next keeps InTag.
C20_InTagToggles ==
    [][/\ (HtmlPass /\ OpensTag(line_pos) /\ \A c \in Passed : ~EndsTag(c)) => in_tag'
       /\ (HtmlPass /\ (in_tag \/ OpensTag(line_pos))) =>
              \A c \in Passed :
                  EndsTag(c) =>
                      /\ ~in_tag'
                      /\ \E tok \in Appended :
                            /\ tok.type = "tag"
                            /\ tok.start[2] <= c /\ c < tok.end[2]
       /\ (pc = "scan" /\ language = "html" /\ pc' = "scan" /\ line_num' # line_num) =>
              in_tag' = in_tag]_vars


\* ------------------------------------------------------------------------
\* Properties of the HTML scan, of the per-line tokenizers and of the editor
\* ------------------------------------------------------------------------

\* The end of the HTML comment that opens at column p of ln: after its "-->",
\* or the end of the line
CommentClose(ln, p) ==
    IF Find(ln, <<"-", "-", ">">>, p) # -1 THEN Find(ln, <<"-", "-", ">">>, p) + 3
    ELSE Len(ln)

\* The positions <<line, column>> of the raw text between the tags of an
\* HTML document, read from column p of line n on: the characters outside
\* every comment and outside every tag, once a first tag has ended (after).
\* A tag runs from its "<" to the first ">" that is not inside a quoted
\* value; intag tells whether a tag is open at p.
RECURSIVE RawText(_, _, _, _, _)
RawText(ls, n, p, intag, after) ==
    IF n > Len(ls) THEN {}
    ELSE IF p >= Len(ls[n]) THEN RawText(ls, n + 1, 0, intag, after)
    ELSE IF LitAt(ls[n], p, Len(ls[n]), <<"<", "!", "-", "-">>)
         THEN RawText(ls, n, CommentClose(ls[n], p), intag, after)
    ELSE IF intag
         THEN IF QuotedString(ls[n], p, Len(ls[n])) # NoMatch
              THEN RawText(ls, n, QuotedString(ls[n], p, Len(ls[n])), TRUE, after)
              ELSE IF ls[n][p + 1] = ">" THEN RawText(ls, n, p + 1, FALSE, TRUE)
              ELSE RawText(ls, n, p + 1, TRUE, after)
    ELSE IF ls[n][p + 1] = "<" THEN RawText(ls, n, p + 1, TRUE, after)
    ELSE (IF after THEN { <<n, p>> } ELSE {}) \cup RawText(ls, n, p + 1, FALSE, after)

\* The positions that a token covers
Span(tok) == { <<tok.start[1], c>> : c \in tok.start[2]..(tok.end[2] - 1) }

\* C21: the HTML tokenizer returns no token whose span lies in the raw text
\* between the ">" that ends a tag and the next "<".
C21_RawTextUntokenized ==
    (pc = "idle" /\ language = "html" /\ Len(returned) >= 1) =>
        \A raw \in { RawText(lines, 1, 0, FALSE, FALSE) } :
            \A i \in DOMAIN returned[1] :
                ~(Span(returned[1][i]) # {} /\ Span(returned[1][i]) \subseteq raw)


\* An iteration of the HTML scan with the cursor at "<!--"
CommentPass == HtmlPass /\ LitAt(line, line_pos, Len(line), <<"<", "!", "-", "-">>)

\* C22: an iteration of the HTML scan with the cursor at "<!--" appends one
\* comment token: up to the end of the first "-->" after the cursor when the
\* line has one, with the cursor left right after it, and up to the end of
\* the line otherwise. It leaves InTag as it was, no comment state exists
\* during the scan, and the step to the next line changes neither.
C22_CommentPerLine ==
    /\ []((pc = "scan" /\ language = "html") => ~in_comment)
    /\ [][/\ CommentPass =>
               \A closes \in { Occurrences(line, line_pos, <<"-", "-", ">">>) } :
                   /\ \A e \in closes :
                         IsFirst(e, closes) =>
                             /\ AppendedSeq = <<Token("comment", line_num, line_pos, e + 3)>>
                             /\ line_pos' = e + 3
                   /\ closes = {} =>
                         /\ AppendedSeq = <<Token("comment", line_num, line_pos, Len(line))>>
                         /\ line_pos' = Len(line)
                   /\ in_tag' = in_tag
                   /\ line_num' = line_num
          /\ (pc = "scan" /\ language = "html" /\ pc' = "scan" /\ line_num' # line_num) =>
                 /\ in_tag' = in_tag
                 /\ line_pos' = 0
                 /\ tokens' = tokens]_vars

\* The HTML tokenizer has returned, for a text of three lines: the closed
\* comment of line 1 as one token, the unclosed comment of line 2 as one
\* token that ends with the line, and the tag name of line 3
C22_Witness ==
    /\ Returned("html", HtmlComments)
    /\ Contains(returned[1], Token("comment", 1, 0, 10))
    /\ Contains(returned[1], Token("comment", 2, 0, 6))
    /\ Contains(returned[1], Token("tag", 3, 0, 2))


\* Some token of toks has the given type and covers columns a to b - 1 of
\* line n
CoveredBy(toks, type, n, a, b) ==
    \E i \in DOMAIN toks :
        /\ toks[i].type = type
        /\ toks[i].start[1] = n /\ toks[i].end[1] = n
        /\ toks[i].start[2] <= a /\ b <= toks[i].end[2]

\* C23: for the tag <a href="v">, whose attribute follows the tag name after
\* a single space, the HTML tokenizer returns a tag token for <a, an
\* attribute token that covers href, a string token for "v" and a tag token
\* for ">".
C23_AttributeTokens ==
    Returned("html", HtmlElement) =>
        /\ Contains(returned[1], Token("tag", 1, 0, 2))
        /\ CoveredBy(returned[1], "attribute", 1, 3, 7)
        /\ Contains(returned[1], Token("string", 1, 8, 11))
        /\ Contains(returned[1], Token("tag", 1, 11, 12))


\* The tokens toks with n as their line number
Relabel(toks, n) ==
    [ i \in DOMAIN toks |->
        [toks[i] EXCEPT !.start = <<n, @[2]>>, !.end = <<n, @[2]>>] ]

\* The tokens that each of the lines n, n + 1, ... of ls yields when it is
\* tokenized alone, with their line numbers set, one line after the other
RECURSIVE PerLine(_, _, _)
PerLine(language_id, ls, n) ==
    IF n > Len(ls) THEN <<>>
    ELSE Relabel(Tokenize(language_id, ls[n]), n) \o PerLine(language_id, ls, n + 1)

\* C24: in a call of the Python or of the CSS tokenizer in_string and
\* in_comment are false throughout, and the list returned for a text is the
\* concatenation, line by line, of the lists that its lines yield when
\* tokenized alone, with only the line number changed.
C24_PerLine ==
    /\ (pc = "scan" /\ language \in {"python", "css"}) => (~in_string /\ ~in_comment)
    /\ (pc = "idle" /\ language \in {"python", "css"} /\ Len(returned) >= 1) =>
           returned[1] = PerLine(language, lines, 1)

\* The Python tokenizer has returned, for a triple-quoted string that opens
\* on line 1 and closes on line 2, the empty string literal of each line and
\* no token that spans the two lines
C24_Witness ==
    /\ Returned("python", PythonTripleQuoted)
    /\ returned[1] = << Token("string", 1, 0, 2), Token("string", 2, 1, 3) >>


\* A step that takes a <<Modified>> event from the queue and runs
\* _on_modified: the only steps that shorten the queue or reset the flag of
\* the widget
HandlerStep ==
    /\ pending > 0
    /\ \/ pending' = pending - 1
       \/ edit_modified /\ ~edit_modified'

\* What is left to handle: the events queued, and the one that the reset of
\* a set flag will raise
Backlog == 2 * pending + (IF edit_modified THEN 1 ELSE 0)

\* C25: handling a <<Modified>> event raised by a change of the text runs
\* exactly one highlight pass, from the tags the handler found to the layout
\* of the text, and is over before the next event is taken from the queue.
\* The event that the handler's own reset of the flag raises is handled with
\* no pass and no change of the tags, and every handling shortens what is
\* left to handle, so the handler cannot feed itself.
C25_OnePassPerEvent ==
    [][HandlerStep =>
          /\ doc' = doc
          /\ Backlog' < Backlog
          /\ edit_modified =>
                /\ passes' = 1
                /\ before' = tagged
                /\ tagged' = HighlightText(current_language, doc, tagged)
          /\ ~edit_modified =>
                /\ passes' = 0
                /\ before' = before
                /\ tagged' = tagged]_vars

\* The text was changed, the event of the change was handled with a pass
\* that left style tags in the text, and the event raised by the reset of the
\* flag has been handled with none: the queue is empty
C25_Witness ==
    /\ last_call = "_on_modified"
    /\ passes = 0
    /\ pending = 0
    /\ ~edit_modified
    /\ \E i \in DOMAIN tagged : StyleOf(tagged, i) # {}


\* set_content or clear is the method that ran last: no key has changed the
\* text since
FreshlyLoaded == last_call \in {"set_content", "clear"}

\* C27: is_modified() is False when set_content or clear returns, and it is
\* False still after the <<Modified>> event raised by their delete and
\* insert has been handled from the event queue.
C27_LoadedNotModified ==
    /\ [](FreshlyLoaded => ~modified)
    /\ [][(HandlerStep /\ FreshlyLoaded) => ~modified']_vars


\* C26: the language that the dropdown shows is the language the editor
\* highlights with.
C26_DropdownIsLanguage == language_var = current_language

=============================================================================
